---- MODULE Spec2Model ----
(***************************************************************************)
(* Reconciliation engine of the image renamer (ImageRenameHandler):        *)
(* event ingestion with debounce, the single-flight guard, the stability   *)
(* prober, the file-set resolver and the two-phase rename of               *)
(* reorganize_all_files, for the two implementations of the repository     *)
(* (rename_images_watcher.py and rename_images_watcher_CORRECTED.py).      *)
(*                                                                         *)
(* File names are sequences of tokens (words, "_", ".", decimal digits),   *)
(* so formatting (f"{prefix}_{i+1:02d}{ext}") and matching (startswith,    *)
(* endswith, Path.suffix, the regular expression of is_already_renamed)    *)
(* are computed on the name's text. Time is counted in ticks of 0.5 s.     *)
(***************************************************************************)
EXTENDS Integers, Sequences, FiniteSets, TLC

\* ------------------------------------------------------------------ bounds
MaxFiles == 3      \* files that ever exist in the watched directory
MaxPasses == 2     \* manual passes run one after the other
NWorkers == 3      \* worker threads alive at the same time
MaxTime == 3       \* ticks of the clock (0.5 s each)
MaxSize == 2       \* largest size a file being written grows to
MaxEvents == 1     \* raw events the notification collaborator still holds
CacheClock == 16   \* ticks of the clock in the specification of the event cache
FewFiles == 2      \* files that arrive where two workers or the clock run

Ids == 1..MaxFiles
Workers == 1..NWorkers
Menu == 0
Threads == Workers \cup {Menu}

\* ------------------------------------------------------------------ state
VARIABLES
    impl,               \* "corrected" | "original": which of the two scripts runs
    platform,           \* "posix" | "windows": semantics of rename and glob
    directory,          \* "ok" | "gone" | "unreadable": what os.listdir finds
    fs,                 \* the entries of the watched directory: file identity -> entry
    prefix,             \* self.prefix
    processing,         \* self.processing
    last_event_time,    \* self.last_event_time: path -> time of last accepted event
    temp_files,         \* self.temp_files
    now,                \* time.time(), in ticks
    events,             \* raw events not yet delivered to the handler
    pc,                 \* position of each thread
    path,               \* file_path argument of each worker
    renames,            \* local `renames` (temp_names) of the pass of each thread
    phase1_ok,          \* local `successful_phase1` of the pass of each thread
    idx,                \* loop index of the pass of each thread
    probe,              \* locals of _wait_file_stable of each worker
    cache_copy,         \* dict being built by the comprehension of _cleanup_cache
    manual_passes,      \* manual passes started so far (bounds the run)
    existing_files,     \* local `existing_files` of the pass of each thread
    hist                \* observations about the run, never read by the program

vars == <<impl, platform, directory, fs, prefix, processing, last_event_time, temp_files,
          now, events, pc, path, renames, phase1_ok, idx, probe, cache_copy,
          manual_passes, existing_files, hist>>

\* ------------------------------------------------------------------ names
Digit == <<"0", "1", "2", "3", "4", "5", "6", "7", "8", "9">>

IsDigit(tok) == \E d \in 1..10 : Digit[d] = tok

\* str.lower() on a token
Lower(tok) ==
    CASE tok = "PNG" -> "png"
      [] tok = "Png" -> "png"
      [] tok = "JPG" -> "jpg"
      [] tok = "JPEG" -> "jpeg"
      [] tok = "Horizon" -> "horizon"
      [] tok = "Trip" -> "trip"
      [] tok = "Trip(" -> "trip("
      [] tok = "TEMP" -> "temp"
      [] tok = "IMG" -> "img"
      [] OTHER -> tok

ImageExts == {"png", "jpg", "jpeg"}

\* x.lower().endswith('.png') or ... '.jpg' or ... '.jpeg'
EndsWithImageExt(name) ==
    /\ Len(name) >= 2
    /\ name[Len(name) - 1] = "."
    /\ Lower(name[Len(name)]) \in ImageExts

\* Path.suffix: the last dot and what follows it, unless the name starts with it
Suffix(name) ==
    IF Len(name) >= 3 /\ name[Len(name) - 1] = "."
    THEN <<".", name[Len(name)]>>
    ELSE <<>>

LowerSeq(s) == [i \in 1..Len(s) |-> Lower(s[i])]

\* file_name.startswith('TEMP_')
StartsWithTemp(name) == Len(name) >= 2 /\ name[1] = "TEMP" /\ name[2] = "_"

RECURSIVE DecimalDigits(_)
DecimalDigits(n) ==
    IF n < 10 THEN <<Digit[n + 1]>>
    ELSE DecimalDigits(n \div 10) \o <<Digit[(n % 10) + 1]>>

\* a format of exactly two digits: the last two digits of the number
Fmt02dTruncated(n) == <<Digit[((n \div 10) % 10) + 1], Digit[(n % 10) + 1]>>

\* format spec 02d: decimal, zero-padded to a minimum width of 2
Fmt02d(n) == IF n < 10 THEN <<"0">> \o DecimalDigits(n) ELSE DecimalDigits(n)

\* f"{self.prefix}_{i+1:02d}{ext}"
ExpectedName(pfx, n, ext) == <<pfx, "_">> \o Fmt02d(n) \o ext

\* a temporary name that leaves the number out
TempNameUnnumbered(pfx, n, ext) == <<"TEMP", "_", pfx>> \o ext

\* f"TEMP_{i+1:02d}_{self.prefix}{ext}"
TempName(pfx, n, ext) == <<"TEMP", "_">> \o Fmt02d(n) \o <<"_", pfx>> \o ext

\* the prefix is put into the pattern as it is: in the prefix Trip+ the plus
\* sign is a quantifier, and the pattern matches Trip, Tripp, ... but not Trip+
PrefixPatternMatches(pfx, tok) ==
    IF pfx = "Trip+" THEN Lower(tok) = "trip" ELSE Lower(tok) = Lower(pfx)

\* re.match(rf"^{self.prefix}_\d{{2,}}\.(png|jpg|jpeg)$", filename, re.IGNORECASE)
is_already_renamed(pfx, name) ==
    /\ Len(name) >= 6
    /\ PrefixPatternMatches(pfx, name[1])
    /\ name[2] = "_"
    /\ \A i \in 3..(Len(name) - 2) : IsDigit(name[i])
    /\ name[Len(name) - 1] = "."
    /\ Lower(name[Len(name)]) \in ImageExts

\* the number a canonical name carries (0 when the name is not canonical)
RECURSIVE DigitsValue(_)
DigitsValue(ds) ==
    IF ds = <<>> THEN 0
    ELSE DigitsValue(SubSeq(ds, 1, Len(ds) - 1)) * 10
         + (CHOOSE d \in 0..9 : Digit[d + 1] = ds[Len(ds)])

NumberOf(pfx, name) ==
    IF Len(name) >= 6 /\ name[1] = pfx /\ name[2] = "_"
       /\ \A i \in 3..(Len(name) - 2) : IsDigit(name[i])
    THEN DigitsValue(SubSeq(name, 3, Len(name) - 2))
    ELSE 0

\* ------------------------------------------------------------------ directory
NoFile == [name |-> <<>>, present |-> FALSE, ctime |-> 0, size |-> 0,
           readable |-> FALSE, regular |-> FALSE, writing |-> FALSE]

Present(dir) == {f \in Ids : dir[f].present}

\* the entry that carries a name, 0 when there is none
IdOf(dir, name) ==
    IF \E f \in Ids : dir[f].present /\ dir[f].name = name
    THEN CHOOSE f \in Ids : dir[f].present /\ dir[f].name = name
    ELSE 0

\* Path.exists()
Exists(dir, name) == IdOf(dir, name) # 0

\* os.path.getctime
getctime(dir, name) == dir[IdOf(dir, name)].ctime

\* Path.rename(target): "ok" | "missing" (FileNotFoundError) | "denied"
\* (PermissionError: Windows refuses to rename an entry it cannot open) |
\* "exists" (FileExistsError on Windows, IsADirectoryError on POSIX)
RenameOutcome(plat, dir, src, dst) ==
    LET s == IdOf(dir, src)
        d == IdOf(dir, dst)
    IN  IF s = 0 THEN "missing"
        ELSE IF plat = "windows" /\ ~dir[s].readable THEN "denied"
        ELSE IF d = 0 \/ d = s THEN "ok"
        ELSE IF plat = "windows" \/ ~dir[d].regular THEN "exists"
        ELSE "ok"

\* the directory after a rename whose outcome is "ok": on POSIX an existing
\* target is replaced silently
RenameResult(dir, src, dst) ==
    LET s == IdOf(dir, src)
        d == IdOf(dir, dst)
    IN  [f \in Ids |->
            IF f = s THEN [dir[f] EXCEPT !.name = dst]
            ELSE IF f = d THEN NoFile
            ELSE dir[f]]

\* names found in the directory before the engine touches it
Vacation == <<"vacation", ".", "png">>
Img002 == <<"IMG", "_", "0", "0", "2", ".", "jpg">>
Horizon01Jpeg == <<"Horizon", "_", "0", "1", ".", "jpeg">>
Horizon03Png == <<"Horizon", "_", "0", "3", ".", "png">>
Temp01Png == <<"TEMP", "_", "0", "1", "_", "Horizon", ".", "png">>
PhotoUpper == <<"photo", ".", "PNG">>

InitNames == {Vacation, Img002, Horizon01Jpeg, Horizon03Png, Temp01Png, PhotoUpper}

\* a complete, readable, regular file
CleanFile(name, ct) ==
    [name |-> name, present |-> TRUE, ctime |-> ct, size |-> 1,
     readable |-> TRUE, regular |-> TRUE, writing |-> FALSE]

\* ------------------------------------------------------------------ resolver
\* the orders in which os.listdir / glob may return the entries
Listings(dir) ==
    LET S == Present(dir)
    IN  {l \in [1..Cardinality(S) -> S] : \A i, j \in DOMAIN l : i # j => l[i] # l[j]}

\* get_real_image_files of the corrected script: is_file, extension, exists,
\* stat, st_size > 0 and a one-byte read; failing entries are skipped
PassesChecks(e) ==
    /\ e.present
    /\ e.regular
    /\ EndsWithImageExt(e.name)
    /\ e.size > 0
    /\ e.readable

get_real_image_files(dir, listing) ==
    LET kept == SelectSeq(listing, LAMBDA f : PassesChecks(dir[f]))
    IN  [i \in 1..Len(kept) |-> dir[kept[i]].name]

\* directory.glob("*.<ext>"): case-sensitive on POSIX, case-insensitive on Windows;
\* no check of type, size or readability
GlobMatches(plat, name, ext) ==
    /\ Len(name) >= 2
    /\ name[Len(name) - 1] = "."
    /\ IF plat = "windows" THEN Lower(name[Len(name)]) = Lower(ext)
       ELSE name[Len(name)] = ext

Glob(plat, dir, listing, ext) ==
    LET kept == SelectSeq(listing, LAMBDA f : GlobMatches(plat, dir[f].name, ext))
    IN  [i \in 1..Len(kept) |-> dir[kept[i]].name]

\* for ext in ["*.png", "*.jpg", "*.jpeg"]: glob(ext) then glob(ext.upper())
glob_image_files(plat, dir, listing) ==
    Glob(plat, dir, listing, "png") \o Glob(plat, dir, listing, "PNG")
    \o Glob(plat, dir, listing, "jpg") \o Glob(plat, dir, listing, "JPG")
    \o Glob(plat, dir, listing, "jpeg") \o Glob(plat, dir, listing, "JPEG")

\* list.sort(key=getctime): stable, ascending, no secondary key
InsertByCtime(dir, sorted, x) ==
    LET after == {i \in 1..Len(sorted) : getctime(dir, sorted[i]) > getctime(dir, x)}
        pos == IF after = {} THEN Len(sorted) + 1
               ELSE CHOOSE i \in after : \A j \in after : i <= j
    IN  SubSeq(sorted, 1, pos - 1) \o <<x>> \o SubSeq(sorted, pos, Len(sorted))

RECURSIVE SortByCtime(_, _)
SortByCtime(dir, s) ==
    IF s = <<>> THEN <<>>
    ELSE InsertByCtime(dir, SortByCtime(dir, SubSeq(s, 1, Len(s) - 1)), s[Len(s)])

\* the resolved, ordered file list of a pass
ResolvedFiles(which, plat, dir, listing) ==
    SortByCtime(dir, IF which = "corrected" THEN get_real_image_files(dir, listing)
                     ELSE glob_image_files(plat, dir, listing))

\* ------------------------------------------------------------------ plan
\* one (file_path, temp, final) of the list `renames`
PlanEntry(pfx, i, name) ==
    [file_path |-> name,
     temp |-> TempName(pfx, i, LowerSeq(Suffix(name))),
     final |-> ExpectedName(pfx, i, LowerSeq(Suffix(name)))]

\* the loop as it would be if every entry were planned, in place or not
RECURSIVE BuildRenamesAll(_, _, _)
BuildRenamesAll(pfx, files, i) ==
    IF i > Len(files) THEN <<>>
    ELSE <<PlanEntry(pfx, i, files[i])>> \o BuildRenamesAll(pfx, files, i + 1)

\* the loop that prepares the renames: entry i is kept when name != expected
RECURSIVE BuildRenames(_, _, _)
BuildRenames(pfx, files, i) ==
    IF i > Len(files) THEN <<>>
    ELSE (IF files[i] # ExpectedName(pfx, i, LowerSeq(Suffix(files[i])))
          THEN <<PlanEntry(pfx, i, files[i])>> ELSE <<>>)
         \o BuildRenames(pfx, files, i + 1)

\* ------------------------------------------------------------------ the pass
\* the notification collaborator holds at most MaxEvents events; beyond that
\* it omits the event
Emit(evs, e) == IF Cardinality(evs) < MaxEvents THEN evs \cup {e} ELSE evs

\* where reorganize_all_files returns to: the menu loop, or process_new_file
\* (which goes on to _cleanup_cache)
AfterPass(t) == IF t = Menu THEN "idle" ELSE "cleanup"

\* the list phase 2 iterates: successful_phase1 (corrected), temp_names (original)
Phase2List(t) == IF impl = "corrected" THEN phase1_ok[t] ELSE renames[t]

IdsOf(dir, names) == [i \in 1..Len(names) |-> IdOf(dir, names[i])]

\* the file a plan entry was made for: entry number i of the resolved list
EntryId(t, e) == hist.order[t][NumberOf(e.final[1], e.final)]

\* reorganize_all_files up to the start of phase 1: resolve, sort, prepare the
\* renames; returns when there is no image file or nothing to rename
ReorgPlan(t) ==
    /\ pc[t] = "reorg"
    /\ \E listing \in Listings(fs) :
        LET files == IF directory = "ok"
                     THEN ResolvedFiles(impl, platform, fs, listing) ELSE <<>>
            plan == BuildRenames(prefix, files, 1)
        IN  /\ renames' = [renames EXCEPT ![t] = plan]
            /\ pc' = [pc EXCEPT ![t] = IF plan = <<>> THEN AfterPass(t) ELSE "phase1"]
            /\ hist' = [hist EXCEPT !.order[t] = IdsOf(fs, files),
                                    !.failed[t] = FALSE,
                                    !.failedIds = {},
                                    !.nren[t] = 0]
    /\ phase1_ok' = [phase1_ok EXCEPT ![t] = <<>>]
    /\ idx' = [idx EXCEPT ![t] = 1]
    /\ UNCHANGED <<impl, platform, directory, fs, prefix, processing, last_event_time,
                   temp_files, now, events, path, probe, cache_copy, manual_passes,
                   existing_files>>

\* the locals of reorganize_all_files when the loop of a phase goes on at its
\* next entry, moves to the next phase at `to`, or the function returns
PassLocals(t, to, ok1) ==
    /\ pc' = [pc EXCEPT ![t] = to]
    /\ idx' = [idx EXCEPT ![t] = IF to = pc[t] THEN @ + 1 ELSE 1]
    /\ renames' = [renames EXCEPT ![t] = IF to = AfterPass(t) THEN <<>> ELSE @]
    /\ phase1_ok' = [phase1_ok EXCEPT ![t] = IF to = AfterPass(t) THEN <<>> ELSE ok1]

\* phase 1 as it would be without self.temp_files.add(temp)
Phase1StepUnregistered(t) ==
    /\ pc[t] = "phase1"
    /\ LET e == renames[t][idx[t]]
           out == RenameOutcome(platform, fs, e.file_path, e.temp)
           last == idx[t] = Len(renames[t])
           ok1 == IF out = "ok" THEN Append(phase1_ok[t], e) ELSE phase1_ok[t]
       IN  /\ temp_files' = temp_files
           /\ fs' = IF out = "ok" THEN RenameResult(fs, e.file_path, e.temp) ELSE fs
           /\ events' = IF out = "ok" THEN Emit(events, [kind |-> "moved", name |-> e.temp])
                        ELSE events
           /\ hist' = [hist EXCEPT
                  !.failed[t] = @ \/ out # "ok",
                  !.failedEver = @ \/ out # "ok",
                  !.failedIds = IF out # "ok" THEN @ \cup {EntryId(t, e)} ELSE @,
                  !.nren[t] = IF out = "ok" THEN @ + 1 ELSE @,
                  !.renamedWriting = @ \/ (/\ out = "ok"
                                            /\ fs[IdOf(fs, e.file_path)].writing
                                            /\ IdOf(fs, e.file_path) \notin hist.stable)]
           /\ PassLocals(t,
                 IF impl = "original" /\ out # "ok" THEN AfterPass(t)
                 ELSE IF ~last THEN "phase1"
                 ELSE IF impl = "corrected" /\ ok1 = <<>> THEN AfterPass(t)
                 ELSE "phase2",
                 ok1)
    /\ UNCHANGED <<impl, platform, directory, prefix, processing, last_event_time, now,
                   path, probe, cache_copy, manual_passes, existing_files>>

\* one iteration of phase 1: register the temporary name, rename current -> temp.
\* corrected: a failing rename is logged and the loop continues;
\* original: the exception reaches the handler of reorganize_all_files.
Phase1Step(t) ==
    /\ pc[t] = "phase1"
    /\ LET e == renames[t][idx[t]]
           out == RenameOutcome(platform, fs, e.file_path, e.temp)
           last == idx[t] = Len(renames[t])
           ok1 == IF out = "ok" THEN Append(phase1_ok[t], e) ELSE phase1_ok[t]
       IN  /\ temp_files' = temp_files \cup {e.temp}
           /\ fs' = IF out = "ok" THEN RenameResult(fs, e.file_path, e.temp) ELSE fs
           /\ events' = IF out = "ok" THEN Emit(events, [kind |-> "moved", name |-> e.temp])
                        ELSE events
           /\ hist' = [hist EXCEPT
                  !.failed[t] = @ \/ out # "ok",
                  !.failedEver = @ \/ out # "ok",
                  !.failedIds = IF out # "ok" THEN @ \cup {EntryId(t, e)} ELSE @,
                  !.nren[t] = IF out = "ok" THEN @ + 1 ELSE @,
                  !.renamedWriting = @ \/ (/\ out = "ok"
                                            /\ fs[IdOf(fs, e.file_path)].writing
                                            /\ IdOf(fs, e.file_path) \notin hist.stable)]
           /\ PassLocals(t,
                 IF impl = "original" /\ out # "ok" THEN AfterPass(t)
                 ELSE IF ~last THEN "phase1"
                 ELSE IF impl = "corrected" /\ ok1 = <<>> THEN AfterPass(t)
                 ELSE "phase2",
                 ok1)
    /\ UNCHANGED <<impl, platform, directory, prefix, processing, last_event_time, now,
                   path, probe, cache_copy, manual_passes, existing_files>>

\* one iteration of phase 2: rename temp -> final, then forget the temporary name.
\* corrected: skips an entry whose temporary file is gone, logs a failing rename;
\* original: any exception ends the pass.
Phase2Step(t) ==
    /\ pc[t] = "phase2"
    /\ LET e == Phase2List(t)[idx[t]]
           skip == impl = "corrected" /\ ~Exists(fs, e.temp)
           out == RenameOutcome(platform, fs, e.temp, e.final)
           done == ~skip /\ out = "ok"
           raised == ~skip /\ out # "ok"
           last == idx[t] = Len(Phase2List(t))
       IN  /\ fs' = IF done THEN RenameResult(fs, e.temp, e.final) ELSE fs
           /\ events' = IF done THEN Emit(events, [kind |-> "moved", name |-> e.final])
                        ELSE events
           /\ temp_files' = IF done THEN temp_files \ {e.temp} ELSE temp_files
           /\ hist' = [hist EXCEPT !.failed[t] = @ \/ raised,
                                   !.failedEver = @ \/ raised,
                                   !.failedIds = IF raised THEN @ \cup {EntryId(t, e)} ELSE @,
                                   !.leftTemp = IF raised THEN @ \cup ({IdOf(fs, e.temp)} \ {0})
                                                ELSE @,
                                   !.nren[t] = IF done THEN @ + 1 ELSE @]
           /\ PassLocals(t,
                 IF last \/ (impl = "original" /\ raised) THEN AfterPass(t) ELSE "phase2",
                 phase1_ok[t])
    /\ UNCHANGED <<impl, platform, directory, prefix, processing, last_event_time, now,
                   path, probe, cache_copy, manual_passes, existing_files>>

\* menu choice 4: event_handler.reorganize_all_files(Path(directory_path)),
\* called on the menu thread without looking at self.processing
MenuReorganize ==
    /\ pc[Menu] = "idle"
    /\ manual_passes < MaxPasses
    /\ manual_passes' = manual_passes + 1
    /\ pc' = [pc EXCEPT ![Menu] = "reorg"]
    /\ UNCHANGED <<impl, platform, directory, fs, prefix, processing, last_event_time, temp_files,
                   now, events, path, renames, phase1_ok, idx, probe, cache_copy, hist,
                   existing_files>>

MenuPassStep == ReorgPlan(Menu) \/ Phase1Step(Menu) \/ Phase2Step(Menu)

\* ------------------------------------------------------------------ time
DebounceDelay == 3     \* self.debounce_delay = 1.5 s
CacheHorizon == 15     \* self.debounce_delay * 5 = 7.5 s
ProbeTimeout == 10     \* timeout=5 s of _wait_file_stable
StableThreshold == 2   \* stable_count >= 2

TickTo(limit) ==
    /\ now < limit
    /\ now' = now + 1
    /\ UNCHANGED <<impl, platform, directory, fs, prefix, processing, last_event_time, temp_files,
                   events, pc, path, renames, phase1_ok, idx, probe, cache_copy,
                   manual_passes, hist, existing_files>>

Tick == TickTo(MaxTime)

\* ------------------------------------------------------------------ event ingestion
\* a filter that consults only the registered temporary names
ShouldProcessRegisteredOnly(name) ==
    /\ EndsWithImageExt(name)
    /\ name \notin temp_files

\* _should_process_file (corrected); the same tests inline in on_created and
\* on_modified of the original script
_should_process_file(name) ==
    /\ EndsWithImageExt(name)
    /\ ~(StartsWithTemp(name) \/ name \in temp_files)

\* on_moved of the original script tests the TEMP_ prefix only
OriginalMovedFilter(name) ==
    /\ EndsWithImageExt(name)
    /\ ~StartsWithTemp(name)

\* on_created / on_modified / on_moved: does the event reach _debounced_process
HandlerAccepts(e) ==
    CASE e.kind = "created" -> _should_process_file(e.name)
      [] e.kind = "modified" ->
            ~is_already_renamed(prefix, e.name) /\ _should_process_file(e.name)
      [] e.kind = "moved" ->
            IF impl = "corrected" THEN _should_process_file(e.name)
            ELSE OriginalMovedFilter(e.name)

\* the test of _debounced_process: an event less than debounce_delay after the
\* recorded one for the same path is ignored
Debounced(name) ==
    /\ name \in DOMAIN last_event_time
    /\ now - last_event_time[name] < DebounceDelay

\* the worker threads of `pool` that are not running
FreeWorkers(pool) == {w \in pool : pc[w] = "idle"}

\* the watcher thread as it would be if an ignored event, too, were recorded
DeliverStampsDropped(again, pool) ==
    \E e \in events, keep \in again :
        LET isTemp == StartsWithTemp(e.name) \/ e.name \in temp_files
            seen == [hist EXCEPT !.tempReached = @ \/ (isTemp /\ HandlerAccepts(e)),
                                 !.tempFiltered = @ \/ (isTemp /\ ~HandlerAccepts(e))]
        IN
        /\ events' = IF keep THEN events ELSE events \ {e}
        /\ IF HandlerAccepts(e) /\ ~Debounced(e.name)
           THEN /\ FreeWorkers(pool) # {}
                /\ LET w == CHOOSE x \in FreeWorkers(pool) :
                                 \A y \in FreeWorkers(pool) : x <= y
                   IN  /\ pc' = [pc EXCEPT ![w] = "start"]
                       /\ path' = [path EXCEPT ![w] = e.name]
                /\ last_event_time' =
                       [n \in DOMAIN last_event_time \cup {e.name} |->
                            IF n = e.name THEN now ELSE last_event_time[n]]
                /\ hist' = [seen EXCEPT
                       !.tooSoon = @ \/ (/\ e.name \in DOMAIN hist.acceptedAt
                                         /\ now - hist.acceptedAt[e.name] < DebounceDelay),
                       !.acceptedAt = [n \in DOMAIN @ \cup {e.name} |->
                                          IF n = e.name THEN now ELSE @[n]]]
           ELSE /\ ~keep
                /\ hist' = [seen EXCEPT
                       !.debounced = @ \/ HandlerAccepts(e),
                       !.droppedAt = IF HandlerAccepts(e) /\ now > hist.acceptedAt[e.name]
                                     THEN [n \in DOMAIN @ \cup {e.name} |->
                                              IF n = e.name THEN now ELSE @[n]]
                                     ELSE @]
                /\ last_event_time' =
                       IF HandlerAccepts(e)
                       THEN [n \in DOMAIN last_event_time \cup {e.name} |->
                                IF n = e.name THEN now ELSE last_event_time[n]]
                       ELSE last_event_time
                /\ UNCHANGED <<pc, path>>
        /\ UNCHANGED <<impl, platform, directory, fs, prefix, processing, temp_files, now, renames,
                       phase1_ok, idx, probe, cache_copy, manual_passes,
                       existing_files>>

\* the watcher thread handles one event: filter, debounce, record the time and
\* start a worker thread on process_new_file. The collaborator may deliver an
\* event again later (keep, when `again` allows it) or not (~keep).
Deliver(again, pool) ==
    \E e \in events, keep \in again :
        LET isTemp == StartsWithTemp(e.name) \/ e.name \in temp_files
            seen == [hist EXCEPT !.tempReached = @ \/ (isTemp /\ HandlerAccepts(e)),
                                 !.tempFiltered = @ \/ (isTemp /\ ~HandlerAccepts(e))]
        IN
        /\ events' = IF keep THEN events ELSE events \ {e}
        /\ IF HandlerAccepts(e) /\ ~Debounced(e.name)
           THEN /\ FreeWorkers(pool) # {}
                /\ LET w == CHOOSE x \in FreeWorkers(pool) :
                                 \A y \in FreeWorkers(pool) : x <= y
                   IN  /\ pc' = [pc EXCEPT ![w] = "start"]
                       /\ path' = [path EXCEPT ![w] = e.name]
                /\ last_event_time' =
                       [n \in DOMAIN last_event_time \cup {e.name} |->
                            IF n = e.name THEN now ELSE last_event_time[n]]
                /\ hist' = [seen EXCEPT
                       !.tooSoon = @ \/ (/\ e.name \in DOMAIN hist.acceptedAt
                                         /\ now - hist.acceptedAt[e.name] < DebounceDelay),
                       !.acceptedAt = [n \in DOMAIN @ \cup {e.name} |->
                                          IF n = e.name THEN now ELSE @[n]]]
           ELSE /\ ~keep
                /\ hist' = [seen EXCEPT
                       !.debounced = @ \/ HandlerAccepts(e),
                       !.droppedAt = IF HandlerAccepts(e) /\ now > hist.acceptedAt[e.name]
                                     THEN [n \in DOMAIN @ \cup {e.name} |->
                                              IF n = e.name THEN now ELSE @[n]]
                                     ELSE @]
                /\ UNCHANGED <<pc, path, last_event_time>>
        /\ UNCHANGED <<impl, platform, directory, fs, prefix, processing, temp_files, now, renames,
                       phase1_ok, idx, probe, cache_copy, manual_passes,
                       existing_files>>

\* ------------------------------------------------------------------ process_new_file
\* re.match raises re.error when the prefix is not a valid pattern
BadPattern(pfx) == pfx = "Trip("

\* existence check, retry after 1 s, is_already_renamed: all before the guard;
\* an exception raised here reaches the handler of process_new_file
WorkerStart(w) ==
    /\ pc[w] \in {"start", "retry"}
    /\ LET to == IF ~Exists(fs, path[w]) THEN (IF pc[w] = "start" THEN "retry" ELSE "idle")
                 ELSE IF BadPattern(prefix) THEN "except"
                 ELSE IF is_already_renamed(prefix, path[w]) THEN "idle"
                 ELSE "guard"
       IN  /\ pc' = [pc EXCEPT ![w] = to]
           /\ path' = [path EXCEPT ![w] = IF to = "idle" THEN <<>> ELSE @]
    /\ UNCHANGED <<impl, platform, directory, fs, prefix, processing, last_event_time, temp_files,
                   now, events, renames, phase1_ok, idx, probe, cache_copy,
                   manual_passes, hist, existing_files>>

\* the guard as it would be if a dropped trigger cleared the flag on its way out
WorkerGuardClears(w) ==
    /\ pc[w] = "guard"
    /\ IF processing
       THEN /\ pc' = [pc EXCEPT ![w] = "idle"]
            /\ path' = [path EXCEPT ![w] = <<>>]
            /\ hist' = [hist EXCEPT !.dropped = (@ \cup {IdOf(fs, path[w])}) \ {0}]
            /\ processing' = FALSE
            /\ UNCHANGED probe
       ELSE /\ processing' = TRUE
            /\ pc' = [pc EXCEPT ![w] = "probe"]
            /\ probe' = [probe EXCEPT ![w] =
                            [start_time |-> now, last_size |-> -1, stable_count |-> 0]]
            /\ hist' = [hist EXCEPT !.dropped = {}, !.order[w] = <<>>,
                                    !.heldBy = @ \cup {w}, !.polls[w] = <<>>]
            /\ UNCHANGED path
    /\ UNCHANGED <<impl, platform, directory, fs, prefix, last_event_time, temp_files, now, events,
                   renames, phase1_ok, idx, cache_copy, manual_passes, existing_files>>

\* with self.processing_lock: if self.processing: return; self.processing = True
WorkerGuard(w) ==
    /\ pc[w] = "guard"
    /\ IF processing
       THEN /\ pc' = [pc EXCEPT ![w] = "idle"]
            /\ path' = [path EXCEPT ![w] = <<>>]
            /\ hist' = [hist EXCEPT !.dropped = (@ \cup {IdOf(fs, path[w])}) \ {0}]
            /\ UNCHANGED <<processing, probe>>
       ELSE /\ processing' = TRUE
            /\ pc' = [pc EXCEPT ![w] = "probe"]
            /\ probe' = [probe EXCEPT ![w] =
                            [start_time |-> now, last_size |-> -1, stable_count |-> 0]]
            /\ hist' = [hist EXCEPT !.dropped = {}, !.order[w] = <<>>,
                                    !.heldBy = @ \cup {w}, !.polls[w] = <<>>]
            /\ UNCHANGED path
    /\ UNCHANGED <<impl, platform, directory, fs, prefix, last_event_time, temp_files, now, events,
                   renames, phase1_ok, idx, cache_copy, manual_passes, existing_files>>

\* the sizes read by the latest polls of the loop of _wait_file_stable, the
\* newest last; StableThreshold + 1 of them are kept
LastPolls(seen, size) ==
    LET all == Append(seen, size)
    IN  IF Len(all) > StableThreshold + 1 THEN Tail(all) ELSE all

\* the loop is entered (no timeout yet) and stat() returns a size
PollReads(w) ==
    /\ now - probe[w].start_time < ProbeTimeout
    /\ Exists(fs, path[w])

ProbeStart == [start_time |-> 0, last_size |-> -1, stable_count |-> 0]

\* the probe as it would be without the fallback after the timeout
ProbeVerdictNoFallback(w) ==
    LET f == IdOf(fs, path[w])
        size == fs[f].size
    IN  IF now - probe[w].start_time >= ProbeTimeout THEN "unstable"
        ELSE IF f = 0 THEN "unstable"
        ELSE IF size > 0 /\ size = probe[w].last_size
                /\ probe[w].stable_count + 1 >= StableThreshold THEN "stable"
        ELSE "again"

\* the probe as it would be if one repeated size were enough
ProbeVerdictEager(w) ==
    LET f == IdOf(fs, path[w])
        size == fs[f].size
    IN  IF now - probe[w].start_time >= ProbeTimeout
        THEN (IF f # 0 /\ size > 0 THEN "stable" ELSE "unstable")
        ELSE IF f = 0 THEN "unstable"
        ELSE IF size > 0 /\ size = probe[w].last_size
                THEN "stable"
        ELSE "again"

\* one turn of the loop of _wait_file_stable, or the check after the timeout
ProbeVerdict(w) ==
    LET f == IdOf(fs, path[w])
        size == fs[f].size
    IN  IF now - probe[w].start_time >= ProbeTimeout
        THEN (IF f # 0 /\ size > 0 THEN "stable" ELSE "unstable")
        ELSE IF f = 0 THEN "unstable"
        ELSE IF size > 0 /\ size = probe[w].last_size
                /\ probe[w].stable_count + 1 >= StableThreshold THEN "stable"
        ELSE "again"

\* the probe as it would be if a missing file were waited for until the timeout
WorkerProbeWaitsWhenGone(w) ==
    /\ pc[w] = "probe"
    /\ LET f == IdOf(fs, path[w])
           size == fs[f].size
           waits == f = 0 /\ now - probe[w].start_time < ProbeTimeout
           v == IF waits THEN "again" ELSE ProbeVerdict(w)
       IN  /\ pc' = [pc EXCEPT ![w] = CASE v = "stable" -> "reorg"
                                        [] v = "unstable" -> "release"
                                        [] OTHER -> "probe"]
           /\ probe' = [probe EXCEPT ![w] =
                 IF v # "again" THEN ProbeStart
                 ELSE IF waits
                 THEN [start_time |-> @.start_time, last_size |-> -1, stable_count |-> 0]
                 ELSE [start_time |-> @.start_time,
                       last_size |-> size,
                       stable_count |->
                           IF size > 0
                           THEN (IF size = @.last_size THEN @.stable_count + 1 ELSE 0)
                           ELSE @.stable_count]]
           /\ hist' = [hist EXCEPT !.stable = IF v = "stable" THEN @ \cup {f} ELSE @,
                                   !.polls[w] = IF PollReads(w) THEN LastPolls(@, size)
                                                ELSE @]
    /\ UNCHANGED <<impl, platform, directory, fs, prefix, processing, last_event_time, temp_files,
                   now, events, path, renames, phase1_ok, idx, cache_copy,
                   manual_passes, existing_files>>

\* the probe as it would be if process_new_file went on to the pass whatever
\* the probe returns
WorkerProbeRunsAnyway(w) ==
    /\ pc[w] = "probe"
    /\ LET f == IdOf(fs, path[w])
           size == fs[f].size
           v == ProbeVerdict(w)
       IN  /\ pc' = [pc EXCEPT ![w] = CASE v = "stable" -> "reorg"
                                        [] v = "unstable" -> "reorg"
                                        [] OTHER -> "probe"]
           /\ probe' = [probe EXCEPT ![w] =
                 IF v # "again" THEN ProbeStart
                 ELSE [start_time |-> @.start_time,
                       last_size |-> size,
                       stable_count |->
                           IF size > 0
                           THEN (IF size = @.last_size THEN @.stable_count + 1 ELSE 0)
                           ELSE @.stable_count]]
           /\ hist' = [hist EXCEPT !.stable = IF v = "stable" THEN @ \cup {f} ELSE @,
                                   !.polls[w] = IF PollReads(w) THEN LastPolls(@, size)
                                                ELSE @]
    /\ UNCHANGED <<impl, platform, directory, fs, prefix, processing, last_event_time, temp_files,
                   now, events, path, renames, phase1_ok, idx, cache_copy,
                   manual_passes, existing_files>>

\* the probe as it would be if `return` on an unstable file left process_new_file
\* without running the finally clause
WorkerProbeNoFinally(w) ==
    /\ pc[w] = "probe"
    /\ LET f == IdOf(fs, path[w])
           size == fs[f].size
           v == ProbeVerdict(w)
       IN  /\ pc' = [pc EXCEPT ![w] = CASE v = "stable" -> "reorg"
                                        [] v = "unstable" -> "idle"
                                        [] OTHER -> "probe"]
           /\ probe' = [probe EXCEPT ![w] =
                 IF v # "again" THEN ProbeStart
                 ELSE [start_time |-> @.start_time,
                       last_size |-> size,
                       stable_count |->
                           IF size > 0
                           THEN (IF size = @.last_size THEN @.stable_count + 1 ELSE 0)
                           ELSE @.stable_count]]
           /\ hist' = [hist EXCEPT !.stable = IF v = "stable" THEN @ \cup {f} ELSE @,
                                   !.polls[w] = IF PollReads(w) THEN LastPolls(@, size)
                                                ELSE @]
    /\ UNCHANGED <<impl, platform, directory, fs, prefix, processing, last_event_time, temp_files,
                   now, events, path, renames, phase1_ok, idx, cache_copy,
                   manual_passes, existing_files>>

WorkerProbe(w) ==
    /\ pc[w] = "probe"
    /\ LET f == IdOf(fs, path[w])
           size == fs[f].size
           v == ProbeVerdict(w)
       IN  /\ pc' = [pc EXCEPT ![w] = CASE v = "stable" -> "reorg"
                                        [] v = "unstable" -> "release"
                                        [] OTHER -> "probe"]
           /\ probe' = [probe EXCEPT ![w] =
                 IF v # "again" THEN ProbeStart
                 ELSE [start_time |-> @.start_time,
                       last_size |-> size,
                       stable_count |->
                           IF size > 0
                           THEN (IF size = @.last_size THEN @.stable_count + 1 ELSE 0)
                           ELSE @.stable_count]]
           /\ hist' = [hist EXCEPT !.stable = IF v = "stable" THEN @ \cup {f} ELSE @,
                                   !.polls[w] = IF PollReads(w) THEN LastPolls(@, size)
                                                ELSE @]
    /\ UNCHANGED <<impl, platform, directory, fs, prefix, processing, last_event_time, temp_files,
                   now, events, path, renames, phase1_ok, idx, cache_copy,
                   manual_passes, existing_files>>

\* _cleanup_cache, start of the dict comprehension: the iteration over
\* self.last_event_time.items() begins on a dict of the current size
CleanupBegin(w) ==
    /\ pc[w] = "cleanup"
    /\ pc' = [pc EXCEPT ![w] = "cleanup_iter"]
    /\ cache_copy' = [cache_copy EXCEPT ![w] =
                        [size |-> Cardinality(DOMAIN last_event_time), items |-> << >>]]
    /\ UNCHANGED <<impl, platform, directory, fs, prefix, processing, last_event_time, temp_files,
                   now, events, path, renames, phase1_ok, idx, probe, manual_passes,
                   hist, existing_files>>

\* the iteration: a key inserted by the watcher thread meanwhile makes it raise
\* RuntimeError (dictionary changed size during iteration); otherwise the
\* entries newer than the cutoff are copied
CleanupIterate(w) ==
    /\ pc[w] = "cleanup_iter"
    /\ IF Cardinality(DOMAIN last_event_time) # cache_copy[w].size
       THEN /\ pc' = [pc EXCEPT ![w] = "release_exc"]
            /\ cache_copy' = [cache_copy EXCEPT ![w] = << >>]
       ELSE /\ pc' = [pc EXCEPT ![w] = "cleanup_store"]
            /\ cache_copy' = [cache_copy EXCEPT ![w] =
                  [size |-> @.size,
                   items |-> [n \in {m \in DOMAIN last_event_time :
                                        last_event_time[m] > now - CacheHorizon}
                                 |-> last_event_time[n]]]]
    /\ UNCHANGED <<impl, platform, directory, fs, prefix, processing, last_event_time, temp_files,
                   now, events, path, renames, phase1_ok, idx, probe, manual_passes,
                   hist, existing_files>>

\* self.last_event_time = <the new dict>
CleanupStore(w) ==
    /\ pc[w] = "cleanup_store"
    /\ last_event_time' = cache_copy[w].items
    /\ cache_copy' = [cache_copy EXCEPT ![w] = << >>]
    /\ pc' = [pc EXCEPT ![w] = "release"]
    /\ UNCHANGED <<impl, platform, directory, fs, prefix, processing, temp_files, now, events,
                   path, renames, phase1_ok, idx, probe, manual_passes, hist,
                   existing_files>>

\* finally: with self.processing_lock: self.processing = False.
\* When an exception is propagating, the handler of process_new_file runs next.
WorkerRelease(w) ==
    /\ pc[w] \in {"release", "release_exc"}
    /\ processing' = FALSE
    /\ pc' = [pc EXCEPT ![w] = IF pc[w] = "release" THEN "idle" ELSE "except"]
    /\ path' = [path EXCEPT ![w] = IF pc[w] = "release" THEN <<>> ELSE @]
    /\ hist' = [hist EXCEPT !.order[w] = <<>>, !.failed[w] = FALSE, !.nren[w] = 0,
                            !.failedIds = {}, !.dropped = {},
                            !.heldBy = IF pc[w] = "release" THEN @ \ {w} ELSE @]
    /\ UNCHANGED <<impl, platform, directory, fs, prefix, last_event_time, temp_files, now, events,
                   renames, phase1_ok, idx, probe, cache_copy, manual_passes,
                   existing_files>>

\* except Exception: with self.processing_lock: self.processing = False
WorkerExcept(w) ==
    /\ pc[w] = "except"
    /\ processing' = FALSE
    /\ pc' = [pc EXCEPT ![w] = "idle"]
    /\ path' = [path EXCEPT ![w] = <<>>]
    /\ hist' = [hist EXCEPT !.heldBy = @ \ {w}]
    /\ UNCHANGED <<impl, platform, directory, fs, prefix, last_event_time, temp_files, now, events,
                   renames, phase1_ok, idx, probe, cache_copy, manual_passes,
                   existing_files>>

WorkerStep(w) ==
    \/ WorkerStart(w)
    \/ WorkerGuard(w)
    \/ WorkerProbe(w)
    \/ ReorgPlan(w)
    \/ Phase1Step(w)
    \/ Phase2Step(w)
    \/ CleanupBegin(w)
    \/ CleanupIterate(w)
    \/ CleanupStore(w)
    \/ WorkerRelease(w)
    \/ WorkerExcept(w)

\* ------------------------------------------------------------------ the pass, statement by statement
\* reorganize_all_files as the other threads and programs can interleave with
\* it: the resolve, then the sort, then one iteration of the planning loop at a
\* time. ReorgPlan is these steps run without interruption.

\* the resolve as it would be if the error of os.listdir reached process_new_file
ReorgResolveRaises(t) ==
    /\ pc[t] = "reorg"
    /\ \E listing \in Listings(fs) :
        LET files == IF directory # "ok" THEN <<>>
                     ELSE IF impl = "corrected" THEN get_real_image_files(fs, listing)
                     ELSE glob_image_files(platform, fs, listing)
        IN  /\ existing_files' = [existing_files EXCEPT ![t] = files]
            /\ pc' = [pc EXCEPT ![t] =
                        IF directory # "ok" /\ t # Menu THEN "release_exc"
                        ELSE IF files = <<>> THEN AfterPass(t) ELSE "sort"]
    /\ hist' = [hist EXCEPT !.order[t] = <<>>, !.failed[t] = FALSE, !.failedIds = {},
                            !.nren[t] = 0, !.aborted = FALSE]
    /\ UNCHANGED <<impl, platform, directory, fs, prefix, processing, last_event_time, temp_files,
                   now, events, path, renames, phase1_ok, idx, probe, cache_copy,
                   manual_passes>>

\* existing_files = self.get_real_image_files(directory) (corrected), or the
\* globs (original); returns when the list is empty
ReorgResolve(t) ==
    /\ pc[t] = "reorg"
    /\ \E listing \in Listings(fs) :
        LET files == IF directory # "ok" THEN <<>>
                     ELSE IF impl = "corrected" THEN get_real_image_files(fs, listing)
                     ELSE glob_image_files(platform, fs, listing)
        IN  /\ existing_files' = [existing_files EXCEPT ![t] = files]
            /\ pc' = [pc EXCEPT ![t] = IF files = <<>> THEN AfterPass(t) ELSE "sort"]
    /\ hist' = [hist EXCEPT !.order[t] = <<>>, !.failed[t] = FALSE, !.failedIds = {},
                            !.nren[t] = 0, !.aborted = FALSE]
    /\ UNCHANGED <<impl, platform, directory, fs, prefix, processing, last_event_time, temp_files,
                   now, events, path, renames, phase1_ok, idx, probe, cache_copy,
                   manual_passes>>

\* existing_files.sort(key=lambda x: os.path.getctime(x)): getctime raises
\* FileNotFoundError for an entry that is gone by now; the exception reaches the
\* handler of reorganize_all_files, which prints it and returns
ReorgSort(t) ==
    /\ pc[t] = "sort"
    /\ LET gone == \E i \in 1..Len(existing_files[t]) : ~Exists(fs, existing_files[t][i])
       IN  IF gone
           THEN /\ pc' = [pc EXCEPT ![t] = AfterPass(t)]
                /\ existing_files' = [existing_files EXCEPT ![t] = <<>>]
                /\ hist' = [hist EXCEPT !.aborted = TRUE]
           ELSE /\ pc' = [pc EXCEPT ![t] = "plan"]
                /\ existing_files' = [existing_files EXCEPT ![t] = SortByCtime(fs, @)]
                /\ hist' = [hist EXCEPT
                       !.order[t] = IdsOf(fs, SortByCtime(fs, existing_files[t]))]
    /\ idx' = [idx EXCEPT ![t] = 1]
    /\ renames' = [renames EXCEPT ![t] = <<>>]
    /\ phase1_ok' = [phase1_ok EXCEPT ![t] = <<>>]
    /\ UNCHANGED <<impl, platform, directory, fs, prefix, processing, last_event_time, temp_files,
                   now, events, path, probe, cache_copy, manual_passes>>

\* one iteration of the loop that prepares the renames: self.prefix is read
\* anew in each iteration
PlanStep(t) ==
    /\ pc[t] = "plan"
    /\ LET i == idx[t]
           name == existing_files[t][i]
           plan == IF name # ExpectedName(prefix, i, LowerSeq(Suffix(name)))
                   THEN Append(renames[t], PlanEntry(prefix, i, name))
                   ELSE renames[t]
           last == i = Len(existing_files[t])
       IN  /\ renames' = [renames EXCEPT ![t] = plan]
           /\ idx' = [idx EXCEPT ![t] = IF last THEN 1 ELSE i + 1]
           /\ existing_files' = [existing_files EXCEPT ![t] = IF last THEN <<>> ELSE @]
           /\ pc' = [pc EXCEPT ![t] = IF ~last THEN "plan"
                                      ELSE IF plan = <<>> THEN AfterPass(t)
                                      ELSE "phase1"]
    /\ UNCHANGED <<impl, platform, directory, fs, prefix, processing, last_event_time, temp_files,
                   now, events, path, phase1_ok, probe, cache_copy, manual_passes, hist>>

PassStep(t) ==
    \/ ReorgResolve(t)
    \/ ReorgSort(t)
    \/ PlanStep(t)
    \/ Phase1Step(t)
    \/ Phase2Step(t)

\* process_new_file with the pass taken statement by statement
WorkerFineStep(w) ==
    \/ WorkerStart(w)
    \/ WorkerGuard(w)
    \/ WorkerProbe(w)
    \/ PassStep(w)
    \/ CleanupBegin(w)
    \/ CleanupIterate(w)
    \/ CleanupStore(w)
    \/ WorkerRelease(w)
    \/ WorkerExcept(w)

\* the prefixes the user enters in the menu, one after the other
MenuPrefixes == <<"Horizon", "Trip", "Trip(">>

\* menu choice 3: event_handler.prefix = new_prefix, on the menu thread
MenuPrefix ==
    /\ pc[Menu] = "idle"
    /\ \E i \in 1..(Len(MenuPrefixes) - 1) :
          /\ prefix = MenuPrefixes[i]
          /\ prefix' = MenuPrefixes[i + 1]
    /\ UNCHANGED <<impl, platform, directory, fs, processing, last_event_time, temp_files, now,
                   events, pc, path, renames, phase1_ok, idx, probe, cache_copy,
                   manual_passes, existing_files, hist>>

\* ------------------------------------------------------------------ environment
\* another program (or the user) removes an entry of the directory
Delete ==
    \E f \in Present(fs) :
        /\ fs' = [fs EXCEPT ![f] = NoFile]
        /\ UNCHANGED <<impl, platform, directory, prefix, processing, last_event_time, temp_files,
                       now, events, pc, path, renames, phase1_ok, idx, probe, cache_copy,
                       manual_passes, existing_files, hist>>

\* the watched directory is removed with all it holds
RemoveDirectory ==
    /\ directory = "ok"
    /\ directory' = "gone"
    /\ fs' = [f \in Ids |-> NoFile]
    /\ UNCHANGED <<impl, platform, prefix, processing, last_event_time, temp_files,
                   now, events, pc, path, renames, phase1_ok, idx, probe, cache_copy,
                   manual_passes, existing_files, hist>>

\* the permission to list the watched directory is withdrawn; its entries stay
ProtectDirectory ==
    /\ directory = "ok"
    /\ directory' = "unreadable"
    /\ UNCHANGED <<impl, platform, fs, prefix, processing, last_event_time, temp_files,
                   now, events, pc, path, renames, phase1_ok, idx, probe, cache_copy,
                   manual_passes, existing_files, hist>>

\* names under which files arrive in the watched directory
ArrivalNames == <<Vacation, Img002, PhotoUpper>>

ArrivalName(f) == ArrivalNames[((f - 1) % Len(ArrivalNames)) + 1]

\* creation times follow the order of arrival
NextCtime ==
    LET used == {fs[g].ctime : g \in Present(fs)}
    IN  IF used = {} THEN 1 ELSE 1 + (CHOOSE c \in used : \A d \in used : d <= c)

NextId(f) == ~fs[f].present /\ \A g \in Ids : g < f => fs[g].present

\* a complete file is moved into the directory (at most `limit` files arrive)
ArriveComplete(limit) ==
    \E f \in Ids :
        /\ f <= limit
        /\ NextId(f)
        /\ ~Exists(fs, ArrivalName(f))
        /\ fs' = [fs EXCEPT ![f] = CleanFile(ArrivalName(f), NextCtime)]
        /\ events' = Emit(events, [kind |-> "created", name |-> ArrivalName(f)])
        /\ UNCHANGED <<impl, platform, directory, prefix, processing, last_event_time, temp_files,
                       now, pc, path, renames, phase1_ok, idx, probe, cache_copy,
                       manual_passes, hist, existing_files>>

\* a complete file whose name already has the form <prefix>_NN.<ext> is moved
\* into the directory, with a number that is not its place in the order
ArriveCanonical ==
    \E f \in Ids :
        /\ NextId(f)
        /\ ~Exists(fs, Horizon03Png)
        /\ fs' = [fs EXCEPT ![f] = CleanFile(Horizon03Png, NextCtime)]
        /\ events' = Emit(events, [kind |-> "created", name |-> Horizon03Png])
        /\ UNCHANGED <<impl, platform, directory, prefix, processing, last_event_time, temp_files,
                       now, pc, path, renames, phase1_ok, idx, probe, cache_copy,
                       manual_passes, hist, existing_files>>

\* another program starts to copy a file into the directory (at most `limit`
\* files arrive)
StartWrite(limit) ==
    \E f \in Ids :
        /\ f <= limit
        /\ NextId(f)
        /\ ~Exists(fs, ArrivalName(f))
        /\ fs' = [fs EXCEPT ![f] =
                    [CleanFile(ArrivalName(f), NextCtime) EXCEPT !.size = 0,
                                                                 !.writing = TRUE]]
        /\ events' = Emit(events, [kind |-> "created", name |-> ArrivalName(f)])
        /\ UNCHANGED <<impl, platform, directory, prefix, processing, last_event_time, temp_files,
                       now, pc, path, renames, phase1_ok, idx, probe, cache_copy,
                       manual_passes, hist, existing_files>>

\* the copy appends to the file, under whatever name the file has by now
Write ==
    \E f \in Ids :
        /\ fs[f].present /\ fs[f].writing /\ fs[f].size < MaxSize
        /\ fs' = [fs EXCEPT ![f].size = @ + 1]
        /\ events' = Emit(events, [kind |-> "modified", name |-> fs[f].name])
        /\ UNCHANGED <<impl, platform, directory, prefix, processing, last_event_time, temp_files,
                       now, pc, path, renames, phase1_ok, idx, probe, cache_copy,
                       manual_passes, hist, existing_files>>

\* the copy is complete
FinishWrite ==
    \E f \in Ids :
        /\ fs[f].present /\ fs[f].writing /\ fs[f].size > 0
        /\ fs' = [fs EXCEPT ![f].writing = FALSE]
        /\ UNCHANGED <<impl, platform, directory, prefix, processing, last_event_time, temp_files,
                       now, events, pc, path, renames, phase1_ok, idx, probe, cache_copy,
                       manual_passes, hist, existing_files>>

\* the other program rewrites the file from its start
Truncate ==
    \E f \in Ids :
        /\ fs[f].present /\ fs[f].regular /\ fs[f].size > 0
        /\ fs' = [fs EXCEPT ![f].size = 0, ![f].writing = TRUE]
        /\ events' = Emit(events, [kind |-> "modified", name |-> fs[f].name])
        /\ UNCHANGED <<impl, platform, directory, prefix, processing, last_event_time, temp_files,
                       now, pc, path, renames, phase1_ok, idx, probe, cache_copy,
                       manual_passes, hist, existing_files>>

\* time.sleep(0.2) at the end of a turn of the loop of _wait_file_stable: time
\* passes while worker w waits for its file
Sleep(w) ==
    /\ pc[w] = "probe"
    /\ now - probe[w].start_time < ProbeTimeout
    /\ now' = now + 1
    /\ UNCHANGED <<impl, platform, directory, fs, prefix, processing, last_event_time, temp_files,
                   events, pc, path, renames, phase1_ok, idx, probe, cache_copy,
                   manual_passes, hist, existing_files>>

\* ------------------------------------------------------------------ initial states
MaxCtime == 3      \* creation times are drawn from 1..MaxCtime

\* directories of entries drawn from E: identities are numbered by creation
\* time, names are pairwise distinct
DirsOf(E) ==
    {d \in [Ids -> E \cup {NoFile}] :
        /\ \A f \in Ids : d[f].present /\ f > 1 => d[f - 1].present
        /\ \A f \in Ids : d[f].present /\ f > 1 => d[f - 1].ctime <= d[f].ctime
        /\ \A f, g \in Ids : d[f].present /\ d[g].present /\ f # g
                                => d[f].name # d[g].name}

CleanDirs == DirsOf({CleanFile(n, c) : n \in InitNames, c \in 1..MaxCtime})

HistInit ==
    [order |-> [t \in Threads |-> <<>>],
     failed |-> [t \in Threads |-> FALSE],
     nren |-> [t \in Threads |-> 0],
     failedEver |-> FALSE,
     failedIds |-> {},
     aborted |-> FALSE,
     heldBy |-> {},
     renamedWriting |-> FALSE,
     dropped |-> {},
     stable |-> {},
     tempReached |-> FALSE,
     tempFiltered |-> FALSE,
     debounced |-> FALSE,
     tooSoon |-> FALSE,
     acceptedAt |-> << >>,
     droppedAt |-> << >>,
     polls |-> [t \in Threads |-> <<>>],
     leftTemp |-> {}]

\* ImageRenameHandler.__init__ and the threads before anything runs
InitEngine ==
    /\ prefix = "Horizon"
    /\ directory = "ok"
    /\ processing = FALSE
    /\ last_event_time = << >>
    /\ temp_files = {}
    /\ now = 0
    /\ events = {}
    /\ pc = [t \in Threads |-> "idle"]
    /\ path = [t \in Workers |-> <<>>]
    /\ renames = [t \in Threads |-> <<>>]
    /\ phase1_ok = [t \in Threads |-> <<>>]
    /\ idx = [t \in Threads |-> 1]
    /\ probe = [t \in Workers |-> ProbeStart]
    /\ cache_copy = [t \in Workers |-> << >>]
    /\ manual_passes = 0
    /\ existing_files = [t \in Threads |-> <<>>]
    /\ hist = HistInit

\* ------------------------------------------------------------------ SpecPass
\* manual passes of the corrected script, one after the other, over every small
\* directory of complete files; nothing else touches the directory
InitPass ==
    /\ impl = "corrected"
    /\ platform \in {"posix", "windows"}
    /\ fs \in CleanDirs
    /\ InitEngine

NextPass == MenuReorganize \/ MenuPassStep

SpecPass == InitPass /\ [][NextPass]_vars

\* ------------------------------------------------------------------ claims on SpecPass
\* a manual pass has returned and none of its renames raised
ManualPassSucceeded ==
    /\ pc[Menu] = "idle"
    /\ manual_passes >= 1
    /\ ~hist.failed[Menu]

\* the name is exactly <prefix>_<number>.<image extension>
IsCanonical(name) == is_already_renamed(prefix, name) /\ name[1] = prefix

\* C1 (as claimed): after a pass in which every rename succeeded, the N files
\* the resolver found carry exactly the numbers 1..N, each once, whatever their
\* prior names were.
C1_Contiguity ==
    ManualPassSucceeded =>
        LET ord == hist.order[Menu]
            N == Len(ord)
        IN  /\ \A i \in 1..N : fs[ord[i]].present /\ IsCanonical(fs[ord[i]].name)
            /\ \A n \in 1..N :
                 Cardinality({f \in Present(fs) : NumberOf(prefix, fs[f].name) = n}) = 1

\* C2 (as claimed): after a successful pass, files with strictly increasing
\* creation times carry strictly increasing numbers, whatever the listing
\* order and the prior names were.
C2_OrderPreserved ==
    ManualPassSucceeded =>
        \A f, g \in Present(fs) :
            (/\ \E i \in 1..Len(hist.order[Menu]) : hist.order[Menu][i] = f
             /\ \E i \in 1..Len(hist.order[Menu]) : hist.order[Menu][i] = g
             /\ fs[f].ctime < fs[g].ctime)
            => NumberOf(prefix, fs[f].name) < NumberOf(prefix, fs[g].name)

\* C3 (as claimed): the second of two passes run in succession on an unchanged
\* directory performs no rename.
C3_Idempotent ==
    (/\ pc[Menu] = "idle"
     /\ manual_passes = 2
     /\ ~hist.failedEver)
    => hist.nren[Menu] = 0

\* ------------------------------------------------------------------ SpecFlight
\* event-triggered workers and the watcher thread of the corrected script over
\* files that arrive complete
InitFlight ==
    /\ impl = "corrected"
    /\ platform = "posix"
    /\ fs = [f \in Ids |-> NoFile]
    /\ InitEngine

NextFlight ==
    \/ ArriveComplete(MaxFiles)
    \/ Deliver({FALSE}, Workers)
    \/ \E w \in Workers : WorkerStep(w)

SpecFlight == InitFlight /\ [][NextFlight]_vars

InFlight == {"probe", "reorg", "phase1", "phase2", "cleanup", "cleanup_iter",
             "cleanup_store", "release", "release_exc"}

\* C4 (as claimed): at most one worker at a time is between setting processing
\* and resetting it.
C4_SingleFlight == Cardinality({w \in Workers : pc[w] \in InFlight}) <= 1

\* ------------------------------------------------------------------ SpecManual
\* two event-triggered workers and the menu thread (choice 4) over files that
\* arrive complete
NextManual ==
    \/ ArriveComplete(FewFiles)
    \/ Deliver({FALSE}, {1, 2})
    \/ WorkerStep(1)
    \/ WorkerStep(2)
    \/ MenuReorganize
    \/ MenuPassStep

SpecManual == InitFlight /\ [][NextManual]_vars

\* ------------------------------------------------------------------ SpecResolve
\* manual passes of either script over directories that also hold entries the
\* resolver must skip: zero-length files, entries that stat but cannot be read
\* (ghosts), and directories whose name ends in an image extension
ResolveNames == {Vacation, Horizon01Jpeg, PhotoUpper}

EmptyFile(name, ct) == [CleanFile(name, ct) EXCEPT !.size = 0]
GhostFile(name, ct) == [CleanFile(name, ct) EXCEPT !.readable = FALSE]
SubDirectory(name, ct) == [CleanFile(name, ct) EXCEPT !.regular = FALSE]

MixedDirs ==
    DirsOf(UNION {{CleanFile(n, c), EmptyFile(n, c), GhostFile(n, c), SubDirectory(n, c)} :
                    n \in ResolveNames, c \in 1..MaxCtime})

InitResolve ==
    /\ impl \in {"corrected", "original"}
    /\ platform \in {"posix", "windows"}
    /\ fs \in MixedDirs
    /\ InitEngine

SpecResolve == InitResolve /\ [][NextPass]_vars

\* C10 (as claimed): an entry that fails the one-byte read, has length zero or
\* is not a regular file is not in the resolved list (it takes no number) and
\* is in no rename plan.
C10_GhostsExcluded ==
    \A t \in Threads :
        /\ \A i \in 1..Len(hist.order[t]) :
              fs[hist.order[t][i]].present => PassesChecks(fs[hist.order[t][i]])
        /\ (pc[t] = "phase1" /\ idx[t] = 1) =>
              \A i \in 1..Len(renames[t]) :
                  PassesChecks(fs[IdOf(fs, renames[t][i].file_path)])

\* ------------------------------------------------------------------ claims on the engine
\* C5 (as claimed): a manual pass and an event-triggered pass never run at the
\* same time.
C5_ManualSingleFlight ==
    ~(/\ pc[Menu] \in {"reorg", "phase1", "phase2"}
      /\ \E w \in Workers : pc[w] \in InFlight)

\* C7 (as claimed): a file whose trigger is dropped at the guard is in the list
\* resolved by the pass in flight: once that pass is past its resolve (or has
\* given up on its probe), every file dropped during it is in its list.
C7_DroppedIsResolved ==
    \A w \in Workers :
        pc[w] \in InFlight \ {"probe", "reorg"}
            => hist.dropped \subseteq {hist.order[w][i] : i \in 1..Len(hist.order[w])}

\* C9: no event carrying a temporary name of the engine (TEMP_ prefix, or
\* registered in temp_files) gets past the handlers to _debounced_process.
C9_OwnWritesIgnored == ~hist.tempReached

\* C9 witness: the handler has received an event named after a temporary file
\* of a pass and has filtered it out.
C9_Witness ==
    /\ hist.tempFiltered
    /\ \E f \in Present(fs) : IsCanonical(fs[f].name)
    /\ temp_files = {}

\* ------------------------------------------------------------------ SpecWrite
\* two workers and the watcher thread while other programs copy files into the
\* directory
NextWrite ==
    \/ StartWrite(FewFiles)
    \/ Write
    \/ FinishWrite
    \/ Deliver({FALSE}, {1, 2})
    \/ WorkerStep(1)
    \/ WorkerStep(2)

SpecWrite == InitFlight /\ [][NextWrite]_vars

\* C6 (as claimed): every file a pass renames has been declared stable by the
\* prober; no file whose copy is still going on is renamed without that.
C6_OnlyStableRenamed == ~hist.renamedWriting

\* ------------------------------------------------------------------ SpecEvents
\* the watcher thread with repeated deliveries and a running clock, and two
\* workers
NextEvents ==
    \/ ArriveComplete(FewFiles)
    \/ Deliver({TRUE, FALSE}, {1, 2})
    \/ WorkerStep(1)
    \/ WorkerStep(2)
    \/ Tick

SpecEvents == InitFlight /\ [][NextEvents]_vars

\* C8 (as claimed): of two events for the same path less than debounce_delay
\* apart, only one is accepted.
C8_Debounce == ~hist.tooSoon

\* ------------------------------------------------------------------ SpecWatch
\* either script: the watcher thread and two workers over files that arrive
\* complete
InitWatch ==
    /\ impl \in {"corrected", "original"}
    /\ platform = "posix"
    /\ fs = [f \in Ids |-> NoFile]
    /\ InitEngine

NextWatch ==
    \/ ArriveComplete(MaxFiles)
    \/ Deliver({FALSE}, {1, 2})
    \/ WorkerStep(1)
    \/ WorkerStep(2)

SpecWatch == InitWatch /\ [][NextWatch]_vars

\* ------------------------------------------------------------------ more claims on SpecPass
\* C15 (as claimed): the resolved order is a function of the directory content
\* alone: whatever order the OS lists the entries in, the resolve of the content
\* a pass has just resolved gives the sequence the pass obtained.
C15_OrderIsFunctionOfSet ==
    (pc[Menu] = "phase1" /\ idx[Menu] = 1) =>
        \A l \in Listings(fs) :
            IdsOf(fs, ResolvedFiles(impl, platform, fs, l)) = hist.order[Menu]

\* C19 (as claimed): no rename of a pass replaces another file of the
\* directory: a step of a pass never lowers the number of files.
C19_NoRenameOntoExisting ==
    [][Cardinality(Present(fs')) >= Cardinality(Present(fs))]_vars

\* ------------------------------------------------------------------ SpecPlan
\* manual passes of the corrected script under each prefix the user may have
\* chosen
Prefixes == {"Horizon", "Trip", "TEMP"}

InitPlan ==
    /\ impl = "corrected"
    /\ platform = "posix"
    /\ fs \in CleanDirs
    /\ prefix \in Prefixes
    /\ directory = "ok"
    /\ processing = FALSE
    /\ last_event_time = << >>
    /\ temp_files = {}
    /\ now = 0
    /\ events = {}
    /\ pc = [t \in Threads |-> "idle"]
    /\ path = [t \in Workers |-> <<>>]
    /\ renames = [t \in Threads |-> <<>>]
    /\ phase1_ok = [t \in Threads |-> <<>>]
    /\ idx = [t \in Threads |-> 1]
    /\ probe = [t \in Workers |-> ProbeStart]
    /\ cache_copy = [t \in Workers |-> << >>]
    /\ manual_passes = 0
    /\ existing_files = [t \in Threads |-> <<>>]
    /\ hist = HistInit

SpecPlan == InitPlan /\ [][NextPass]_vars

\* the plan over the whole file list: entry i of the list with its temporary
\* and final name, kept or not by the test name != expected
FullPlan(pfx, files) == [i \in 1..Len(files) |-> PlanEntry(pfx, i, files[i])]

\* C13: in the plan a pass has just computed, the final names over the whole
\* list are pairwise distinct and carry the numbers 1..N in order, the
\* temporary names are pairwise distinct, no temporary name is a final name,
\* and the renames kept are exactly the entries whose name is not the final one.
C13_PlanInvariant ==
    (pc[Menu] = "phase1" /\ idx[Menu] = 1) =>
        LET files == [i \in 1..Len(hist.order[Menu]) |-> fs[hist.order[Menu][i]].name]
            full == FullPlan(prefix, files)
            N == Len(full)
        IN  /\ \A i \in 1..N : NumberOf(prefix, full[i].final) = i
            /\ \A i, j \in 1..N : i # j => full[i].final # full[j].final
            /\ \A i, j \in 1..N : i # j => full[i].temp # full[j].temp
            /\ \A i, j \in 1..N : full[i].temp # full[j].final
            /\ renames[Menu] = SelectSeq(full, LAMBDA e : e.file_path # e.final)

\* C13 witness: a plan of three renames under a prefix that is itself TEMP
C13_Witness ==
    /\ pc[Menu] = "phase1" /\ idx[Menu] = 1
    /\ Len(renames[Menu]) = 3
    /\ prefix = "TEMP"

\* ------------------------------------------------------------------ SpecHeal
\* manual passes of either script over directories in which a rename can fail:
\* the name Horizon_01.png is held by a directory or by a zero-length file,
\* both of which the resolver of the corrected script leaves out
Horizon01Png == <<"Horizon", "_", "0", "1", ".", "png">>

HealDirs ==
    DirsOf({CleanFile(n, c) : n \in {Vacation, PhotoUpper, Img002}, c \in 1..MaxCtime}
           \cup {SubDirectory(Horizon01Png, c) : c \in 1..MaxCtime}
           \cup {EmptyFile(Horizon01Png, c) : c \in 1..MaxCtime})

InitHeal ==
    /\ impl \in {"corrected", "original"}
    /\ platform \in {"posix", "windows"}
    /\ fs \in HealDirs
    /\ InitEngine

SpecHeal == InitHeal /\ [][NextPass]_vars

\* C12 (as claimed): when a manual pass has returned, no file of its list is
\* left under a temporary name unless a rename of its own entry failed.
C12_FailurePerEntry ==
    (pc[Menu] = "idle" /\ manual_passes >= 1) =>
        \A i \in 1..Len(hist.order[Menu]) :
            LET f == hist.order[Menu][i]
            IN  (fs[f].present /\ StartsWithTemp(fs[f].name)) => f \in hist.failedIds

\* C14 (as claimed): after a first pass in which a rename failed, a second pass
\* in which no rename fails leaves every file of its list present, under
\* canonical names numbered 1..N in the order of the creation times.
C14_SelfHealing ==
    (/\ pc[Menu] = "idle"
     /\ manual_passes = 2
     /\ hist.failedEver
     /\ ~hist.failed[Menu])
    => LET ord == hist.order[Menu]
       IN  /\ \A i \in 1..Len(ord) : fs[ord[i]].present /\ IsCanonical(fs[ord[i]].name)
           /\ \A i, j \in 1..Len(ord) :
                 fs[ord[i]].ctime < fs[ord[j]].ctime
                    => NumberOf(prefix, fs[ord[i]].name) < NumberOf(prefix, fs[ord[j]].name)
           /\ \A n \in 1..Len(ord) :
                 \E i \in 1..Len(ord) : NumberOf(prefix, fs[ord[i]].name) = n

\* ------------------------------------------------------------------ SpecVanish
\* manual passes of the corrected script, statement by statement, while other
\* programs remove files
InitVanish ==
    /\ impl = "corrected"
    /\ platform = "posix"
    /\ fs \in DirsOf({CleanFile(n, c) : n \in {Vacation, PhotoUpper, Img002}, c \in 1..MaxCtime})
    /\ InitEngine

NextVanish == MenuReorganize \/ PassStep(Menu) \/ Delete

SpecVanish == InitVanish /\ [][NextVanish]_vars

\* C16 (as claimed): a pass is not aborted because one entry has disappeared
\* since the listing: when the sort of a pass met such an entry, the pass still
\* took the remaining files to their canonical names.
C16_ResolverNeverAborts ==
    (hist.aborted /\ pc[Menu] = "idle") =>
        \A f \in Present(fs) : PassesChecks(fs[f]) => IsCanonical(fs[f].name)

\* ------------------------------------------------------------------ SpecPrefix
\* two workers of the corrected script, statement by statement, while the user
\* changes the prefix in the menu
NextPrefix ==
    \/ ArriveComplete(FewFiles)
    \/ Deliver({FALSE}, {1, 2})
    \/ WorkerFineStep(1)
    \/ WorkerFineStep(2)
    \/ MenuPrefix

SpecPrefix == InitFlight /\ [][NextPrefix]_vars

\* C18 (as claimed): all the names of the plan of one pass carry one prefix.
C18_OnePrefixPerPlan ==
    \A t \in Threads : \A i, j \in 1..Len(renames[t]) :
        /\ renames[t][i].final[1] = renames[t][j].final[1]
        /\ renames[t][i].temp[Len(renames[t][i].temp) - 2]
              = renames[t][j].temp[Len(renames[t][j].temp) - 2]

\* C20 (as claimed): a worker that has not acquired the flag in this run of
\* process_new_file never turns a set flag off.
C20_ClearedOnlyBySetter ==
    [][\A w \in Workers :
          (pc[w] # pc'[w] /\ w \notin hist.heldBy /\ processing) => processing']_vars

\* ------------------------------------------------------------------ what the mutex covers
\* the positions whose statement runs inside `with self.processing_lock`: the
\* guard of process_new_file, the release in its finally, the release in its
\* handler. No other statement of either script takes the lock.
UnderLock == {"guard", "release", "release_exc", "except"}

\* C17: every write of temp_files, last_event_time, processing or the prefix is
\* made by a thread that holds processing_lock, that is, by a step of a thread
\* standing at one of the statements inside `with self.processing_lock`
C17_SharedStateUnderLock ==
    [][(\/ last_event_time' # last_event_time
        \/ temp_files' # temp_files
        \/ processing' # processing
        \/ prefix' # prefix)
       => \E t \in Threads : pc[t] \in UnderLock /\ pc'[t] # pc[t]]_vars

\* ------------------------------------------------------------------ return to Idle
\* both scripts with two worker threads over files that arrive complete. Another
\* program may remove the file that has just arrived while a worker handles
\* it: the probe then returns False, the sort raises, or a rename raises; an
\* event handled during the cache cleanup makes the cleanup raise.
Vanish == Cardinality(Present(fs)) = 1 /\ Delete

InitLive ==
    /\ impl \in {"corrected", "original"}
    /\ platform = "posix"
    /\ fs = [f \in Ids |-> NoFile]
    /\ InitEngine

NextLive ==
    \/ ArriveComplete(FewFiles)
    \/ Vanish
    \/ Deliver({FALSE}, {1, 2})
    \/ WorkerFineStep(1)
    \/ WorkerFineStep(2)

\* a started thread is scheduled again and again by the interpreter, and none
\* of its statements waits for another thread longer than the three short
\* sections under processing_lock
SpecLive ==
    /\ InitLive
    /\ [][NextLive]_vars
    /\ WF_vars(WorkerFineStep(1))
    /\ WF_vars(WorkerFineStep(2))

InitProbe ==
    /\ impl = "corrected"
    /\ platform = "posix"
    /\ fs = [f \in Ids |-> NoFile]
    /\ prefix \in {"Horizon", "Trip("}
    /\ directory = "ok"
    /\ processing = FALSE
    /\ last_event_time = << >>
    /\ temp_files = {}
    /\ now = 0
    /\ events = {}
    /\ pc = [t \in Threads |-> "idle"]
    /\ path = [t \in Workers |-> <<>>]
    /\ renames = [t \in Threads |-> <<>>]
    /\ phase1_ok = [t \in Threads |-> <<>>]
    /\ idx = [t \in Threads |-> 1]
    /\ probe = [t \in Workers |-> ProbeStart]
    /\ cache_copy = [t \in Workers |-> << >>]
    /\ manual_passes = 0
    /\ existing_files = [t \in Threads |-> <<>>]
    /\ hist = HistInit

NextProbe ==
    \/ (now < MaxTime /\ StartWrite(1))
    \/ (now < MaxTime /\ Truncate)
    \/ Write
    \/ FinishWrite
    \/ Delete
    \/ Deliver({FALSE}, {1})
    \/ WorkerFineStep(1)
    \/ Sleep(1)

\* the worker thread is scheduled again and again, and each sleep returns
SpecProbe ==
    /\ InitProbe
    /\ [][NextProbe]_vars
    /\ WF_vars(WorkerFineStep(1))
    /\ WF_vars(Sleep(1))

\* the StableThreshold + 1 latest polls of worker w all read the same positive size
SteadyPolls(seen) ==
    /\ Len(seen) = StableThreshold + 1
    /\ \A i \in 1..Len(seen) : seen[i] = seen[1] /\ seen[1] > 0

\* C21: before the timeout the probe returns True exactly when the counter of
\* consecutive polls with an unchanged positive size reaches 2, that is, when
\* the three latest polls read the same positive size; while they did not, the
\* loop goes on
C21_StableIffSteadyPolls ==
    [][\A w \in Workers :
          (/\ pc[w] = "probe"
           /\ PollReads(w)
           /\ (hist'.polls[w] # hist.polls[w] \/ pc'[w] # "probe"))
          => (pc'[w] = "reorg" <=> SteadyPolls(hist'.polls[w]))]_vars

\* the probe has returned True after polls that first read other sizes
C21_Witness ==
    \E w \in Workers :
        /\ pc[w] = "sort"
        /\ hist.polls[w] = <<MaxSize, MaxSize, MaxSize>>
        /\ hist.stable # {}

\* C22: the probe always returns; once the timeout has elapsed it returns True
\* if and only if the file is there with a positive size at the final check
C22_TimeoutFallback ==
    /\ [][\A w \in Workers :
             (/\ pc[w] = "probe"
              /\ now - probe[w].start_time >= ProbeTimeout
              /\ pc'[w] # "probe")
             => (pc'[w] = "reorg"
                   <=> (Exists(fs, path[w]) /\ fs[IdOf(fs, path[w])].size > 0))]_vars
    /\ \A w \in Workers : (pc[w] = "probe") ~> (pc[w] # "probe")

\* the probe has returned True although the latest polls were not steady: the
\* timeout elapsed and the file had a positive size at the final check
C22_Witness ==
    \E w \in Workers :
        /\ pc[w] = "reorg"
        /\ ~SteadyPolls(hist.polls[w])
        /\ now >= ProbeTimeout

\* C23: a poll that finds the path gone returns False at once, whatever the
\* time left before the timeout, and process_new_file skips the pass; only a
\* poll that has read the file's size lets the loop go on
C23_GoneMeansFalseAtOnce ==
    [][\A w \in Workers :
          /\ (pc[w] = "probe" /\ ~Exists(fs, path[w]) /\ pc'[w] # "probe")
                => (pc'[w] = "release" /\ now' = now /\ fs' = fs)
          /\ (pc[w] = "probe" /\ pc'[w] = "probe" /\ probe'[w] # probe[w])
                => Exists(fs, path[w])]_vars

\* the file was there at earlier polls, is gone now, and the probe has returned
\* False before any timeout could have elapsed
C23_Witness ==
    \E w \in Workers :
        /\ pc[w] = "release"
        /\ hist.polls[w] # <<>>
        /\ ~Exists(fs, path[w])
        /\ fs = [f \in Ids |-> NoFile]
        /\ now < ProbeTimeout

\* C24: when the probe returns False, process_new_file returns without a
\* pass: the worker goes from the probe to the release and from there to its
\* end, and on the way the directory and temp_files stay as they are and the
\* flag is cleared
C24_UnstableSkipsPass ==
    [][\A w \in Workers :
          /\ (pc[w] = "probe" /\ ProbeVerdict(w) = "unstable" /\ pc'[w] # "probe")
                => (/\ pc'[w] = "release"
                    /\ fs' = fs
                    /\ temp_files' = temp_files
                    /\ renames' = renames)
          /\ (pc[w] = "release" /\ pc'[w] # "release")
                => (/\ pc'[w] = "idle"
                    /\ ~processing'
                    /\ fs' = fs
                    /\ temp_files' = temp_files)]_vars

\* a worker whose probe returned False is about to release the flag: no file
\* has been declared stable, and the file is still there under its name
C24_Witness ==
    \E w \in Workers :
        /\ pc[w] = "release"
        /\ hist.stable = {}
        /\ Exists(fs, path[w])
        /\ processing

\* ------------------------------------------------------------------ the guard
\* C25: a worker that finds the flag set at the guard returns at once; the
\* flag stays set and the directory, temp_files and last_event_time are as
\* they were
C25_HeldFlagIsNoOp ==
    [][\A w \in Workers :
          (pc[w] = "guard" /\ processing /\ pc'[w] # "guard")
          => (/\ pc'[w] = "idle"
              /\ processing'
              /\ fs' = fs
              /\ temp_files' = temp_files
              /\ last_event_time' = last_event_time)]_vars

\* a trigger has been dropped at the guard while another worker's pass holds
\* the flag
C25_Witness ==
    /\ processing
    /\ hist.dropped # {}
    /\ \E w \in Workers : pc[w] \in InFlight

\* ------------------------------------------------------------------ files that arrive under a canonical name
\* either script, the watcher thread and two workers; one file arrives under an
\* ordinary name and one under the name Horizon_03.png
NextDrop ==
    \/ ArriveComplete(1)
    \/ ArriveCanonical
    \/ Deliver({FALSE}, {1, 2})
    \/ WorkerStep(1)
    \/ WorkerStep(2)

SpecDrop == InitWatch /\ [][NextDrop]_vars

\* the directory is not in canonical form: a pass would rename something
PassIsDue ==
    \A l \in Listings(fs) :
        BuildRenames(prefix, ResolvedFiles(impl, platform, fs, l), 1) # <<>>

\* C26 (as claimed): the worker started for an accepted event reaches the guard
\* of process_new_file whenever its file is there and the directory is not in
\* canonical form, whatever the file's name
C26_AcceptedReachesGuard ==
    [][\A w \in Workers :
          (/\ pc[w] \in {"start", "retry"}
           /\ pc'[w] \notin {"start", "retry"}
           /\ Exists(fs, path[w])
           /\ PassIsDue)
          => pc'[w] = "guard"]_vars

\* ------------------------------------------------------------------ registration of temporary names
\* the entries of the plan of thread t whose file the pass has renamed to its
\* temporary name and not yet to its final name
PendingEntries(t) ==
    IF pc[t] = "phase1"
    THEN {phase1_ok[t][k] : k \in 1..Len(phase1_ok[t])}
    ELSE IF pc[t] = "phase2"
    THEN {Phase2List(t)[k] : k \in idx[t]..Len(Phase2List(t))}
    ELSE {}

Phase2Raises(t) ==
    /\ pc[t] = "phase2"
    /\ LET e == Phase2List(t)[idx[t]]
       IN  /\ Exists(fs, e.temp)
           /\ RenameOutcome(platform, fs, e.temp, e.final) # "ok"

\* C28 (as claimed): when the rename of an entry to its final name fails, the
\* file stays under its temporary name, the name stays in temp_files, and the
\* pass goes on with the next entry; and when the next pass has returned
\* without a failing rename, every file so left is there under a canonical
\* name whose number follows the order of the creation times
C28_Phase2FailureIsLocal ==
    /\ [][\A t \in Threads :
             (Phase2Raises(t) /\ (pc'[t] # pc[t] \/ idx'[t] # idx[t]))
             => LET e == Phase2List(t)[idx[t]]
                IN  /\ Exists(fs', e.temp)
                    /\ e.temp \in temp_files'
                    /\ idx[t] < Len(Phase2List(t))
                          => (pc'[t] = "phase2" /\ idx'[t] = idx[t] + 1)]_vars
    /\ []((/\ pc[Menu] = "idle"
           /\ manual_passes = 2
           /\ ~hist.failed[Menu])
          => \A f \in hist.leftTemp :
                /\ fs[f].present
                /\ IsCanonical(fs[f].name)
                /\ \A g \in Present(fs) :
                      (/\ IsCanonical(fs[g].name)
                       /\ PassesChecks(fs[g])
                       /\ fs[g].ctime < fs[f].ctime)
                      => NumberOf(prefix, fs[g].name) < NumberOf(prefix, fs[f].name))

\* ------------------------------------------------------------------ the event cache
\* time that passes between the triggers, while no thread is at work
IdleTick ==
    /\ \A t \in Threads : pc[t] = "idle"
    /\ TickTo(CacheClock)

\* the corrected script: the watcher thread, two workers and the user's manual
\* passes over one file that arrives complete, with a clock that runs past the
\* horizon of the cache
NextCache ==
    \/ ArriveComplete(1)
    \/ Deliver({FALSE}, {1, 2})
    \/ WorkerStep(1)
    \/ WorkerStep(2)
    \/ MenuReorganize
    \/ MenuPassStep
    \/ IdleTick

SpecCache == InitFlight /\ [][NextCache]_vars

\* thread t returns from a processing pass in this step: the menu thread from
\* reorganize_all_files, a worker from process_new_file after it held the flag
PassEnds(t) ==
    /\ pc'[t] = "idle"
    /\ IF t = Menu THEN pc[t] \in {"reorg", "phase1", "phase2"}
       ELSE pc[t] \in {"release", "except"} /\ t \in hist.heldBy

\* C29 (as claimed): when a processing pass has returned, last_event_time holds
\* no entry older than 5 * debounce_delay
C29_CacheBounded ==
    [][\A t \in Threads :
          PassEnds(t) => \A n \in DOMAIN last_event_time' :
                             now' - last_event_time'[n] <= CacheHorizon]_vars

\* ------------------------------------------------------------------ what the plan leaves out
\* the positions of the resolved list whose entry the plan of thread t renames
PlannedNumbers(t) ==
    {NumberOf(prefix, renames[t][k].final) : k \in 1..Len(renames[t])}

\* C30: the plan a pass has just computed holds exactly the entries whose name
\* is not the target name of their position, in ascending order of position;
\* and no step of the pass touches a file of the list that is not in the plan
C30_PlanIsTheMisnamed ==
    /\ []((pc[Menu] = "phase1" /\ idx[Menu] = 1) =>
            LET ord == hist.order[Menu]
                misnamed == {i \in 1..Len(ord) :
                                fs[ord[i]].name #
                                    ExpectedName(prefix, i, LowerSeq(Suffix(fs[ord[i]].name)))}
                plan == renames[Menu]
            IN  /\ PlannedNumbers(Menu) = misnamed
                /\ Len(plan) = Cardinality(misnamed)
                /\ \A k \in 1..Len(plan) :
                      plan[k].file_path = fs[ord[NumberOf(prefix, plan[k].final)]].name
                /\ \A k, l \in 1..Len(plan) :
                      k < l => NumberOf(prefix, plan[k].final)
                                  < NumberOf(prefix, plan[l].final))
    /\ [][pc[Menu] \in {"phase1", "phase2"} =>
             \A i \in 1..Len(hist.order[Menu]) :
                 i \notin PlannedNumbers(Menu) =>
                     fs'[hist.order[Menu][i]] = fs[hist.order[Menu][i]]]_vars

\* a plan that renames some files of the list and leaves another one, whose
\* name is already the target name of its position, where it is
C30_Witness ==
    /\ pc[Menu] = "phase2"
    /\ Len(renames[Menu]) >= 1
    /\ Len(renames[Menu]) < Len(hist.order[Menu])

\* ------------------------------------------------------------------ errors of the directory itself
\* the corrected script, one worker and the user's manual passes, statement by
\* statement; the watched directory may be removed or made unreadable at any
\* moment
NextDirectory ==
    \/ (directory = "ok" /\ ArriveComplete(FewFiles))
    \/ RemoveDirectory
    \/ ProtectDirectory
    \/ Deliver({FALSE}, {1})
    \/ WorkerFineStep(1)
    \/ MenuReorganize
    \/ PassStep(Menu)

SpecDirectory ==
    /\ InitProbe
    /\ [][NextDirectory]_vars
    /\ WF_vars(WorkerFineStep(1))

\* C31: a pass that finds the directory gone or unreadable when it resolves
\* returns to its caller without an exception and without a rename, and the
\* flag a worker holds is cleared afterwards
C31_DirectoryErrorEndsPass ==
    /\ [][\A t \in Threads :
             (pc[t] = "reorg" /\ directory # "ok" /\ pc'[t] # "reorg")
             => (pc'[t] = AfterPass(t) /\ fs' = fs /\ temp_files' = temp_files)]_vars
    /\ (directory # "ok" /\ processing) ~> ~processing

\* a worker's pass has returned from the resolve of an unreadable directory
\* that holds image files, and the worker still holds the flag
C31_Witness ==
    \E w \in Workers :
        /\ pc[w] = "cleanup"
        /\ directory = "unreadable"
        /\ processing
        /\ hist.order[w] = <<>>
        /\ \E f \in Present(fs) : PassesChecks(fs[f])

\* ------------------------------------------------------------------ extensions
\* a file whose whole name is a dot and an extension: x.lower().endswith('.png')
\* holds for it, Path.suffix is empty
DotPng == <<".", "png">>

ExtNames == {Vacation, PhotoUpper, Horizon01Jpeg, Img002, DotPng}

ExtDirs == DirsOf({CleanFile(n, c) : n \in ExtNames, c \in 1..MaxCtime})

\* manual passes of the corrected script over directories of mixed extensions
InitExt ==
    /\ impl = "corrected"
    /\ platform \in {"posix", "windows"}
    /\ fs \in ExtDirs
    /\ InitEngine

SpecExt == InitExt /\ [][NextPass]_vars

\* the image type the resolver sees in a name
ImageType(name) == IF EndsWithImageExt(name) THEN Lower(name[Len(name)]) ELSE "none"

\* C32: the temporary and the final name of every planned entry carry the
\* image type of the entry's file, entries of different types carry different
\* numbers, and no step of a pass changes the image type of a file
C32_ExtensionKept ==
    /\ [](\A t \in Threads : \A i \in 1..Len(renames[t]) :
            /\ ImageType(renames[t][i].final) = ImageType(renames[t][i].file_path)
            /\ ImageType(renames[t][i].temp) = ImageType(renames[t][i].file_path)
            /\ \A j \in 1..Len(renames[t]) :
                 ImageType(renames[t][i].file_path) # ImageType(renames[t][j].file_path)
                 => NumberOf(prefix, renames[t][i].final) # NumberOf(prefix, renames[t][j].final))
    /\ [][\A f \in Ids : fs[f].present /\ fs'[f].present
             => ImageType(fs'[f].name) = ImageType(fs[f].name)]_vars

\* ------------------------------------------------------------------ number format
MaxIndex == 120    \* the largest 1-based index whose names are computed

\* the body of the loop that prepares the renames, for one index i of the
\* enumeration and one file name
InitFormat ==
    /\ impl = "corrected"
    /\ platform = "posix"
    /\ fs = [f \in Ids |-> NoFile]
    /\ prefix = "Horizon"
    /\ directory = "ok"
    /\ processing = FALSE
    /\ last_event_time = << >>
    /\ temp_files = {}
    /\ now = 0
    /\ events = {}
    /\ pc = [t \in Threads |-> IF t = Menu THEN "plan" ELSE "idle"]
    /\ path = [t \in Workers |-> <<>>]
    /\ renames = [t \in Threads |-> <<>>]
    /\ phase1_ok = [t \in Threads |-> <<>>]
    /\ idx \in {[t \in Threads |-> IF t = Menu THEN i ELSE 1] : i \in 1..MaxIndex}
    /\ probe = [t \in Workers |-> ProbeStart]
    /\ cache_copy = [t \in Workers |-> << >>]
    /\ manual_passes = 0
    /\ existing_files \in {[t \in Threads |-> IF t = Menu THEN <<n>> ELSE <<>>] :
                               n \in {Vacation, PhotoUpper}}
    /\ hist = HistInit

\* ext, expected and temp of lines 265-272 for the index idx
PlanIndex ==
    /\ pc[Menu] = "plan"
    /\ renames' = [renames EXCEPT
                     ![Menu] = <<PlanEntry(prefix, idx[Menu], existing_files[Menu][1])>>]
    /\ pc' = [pc EXCEPT ![Menu] = "planned"]
    /\ UNCHANGED <<impl, platform, directory, fs, prefix, processing, last_event_time,
                   temp_files, now, events, path, phase1_ok, idx, probe, cache_copy,
                   manual_passes, existing_files, hist>>

SpecFormat == InitFormat /\ [][PlanIndex]_vars

\* the digits between the underscore and the dot of a final name
NumericComponent(name) == SubSeq(name, 3, Len(name) - 2)

\* C33: the numeric component of the final name computed for index i has at
\* least two digits, reads as i in decimal, has no more digits than i needs
\* beyond the two, is 01 for 1, 99 for 99 and 100 for 100, and differs from
\* the component of every other index
C33_NumberFormat ==
    pc[Menu] = "planned" =>
        LET i == idx[Menu]
            digits == NumericComponent(renames[Menu][1].final)
        IN  /\ Len(digits) >= 2
            /\ \A k \in 1..Len(digits) : IsDigit(digits[k])
            /\ DigitsValue(digits) = i
            /\ Len(digits) = (IF i < 100 THEN 2 ELSE 3)
            /\ i = 1 => digits = <<"0", "1">>
            /\ i = 99 => digits = <<"9", "9">>
            /\ i = 100 => digits = <<"1", "0", "0">>
            /\ \A j \in (1..MaxIndex) \ {i} :
                 NumericComponent(ExpectedName(prefix, j, <<".", "png">>)) # digits

\* C33 witness: the names of index 100 have been computed
C33_Witness ==
    /\ pc[Menu] = "planned"
    /\ idx[Menu] = 100
    /\ renames[Menu][1].final = <<"Horizon", "_", "1", "0", "0", ".", "png">>

\* ------------------------------------------------------------------ the debounce window
\* either script: a file that is being written, the watcher thread, a running
\* clock and two workers
NextDebounce ==
    \/ StartWrite(1)
    \/ Write
    \/ FinishWrite
    \/ Deliver({FALSE}, {1, 2})
    \/ WorkerStep(1)
    \/ WorkerStep(2)
    \/ Tick

SpecDebounce == InitWatch /\ [][NextDebounce]_vars

\* the watcher thread ignores event e for being too recent
DebounceDrops(e) ==
    /\ e \in events
    /\ events' = events \ {e}
    /\ pc' = pc
    /\ HandlerAccepts(e)

\* C34: the time stored for a path is never later than the last accepted event
\* for it, an ignored event leaves the stored times as they are, and an event
\* is ignored only when it comes less than debounce_delay after the last
\* accepted event for its path
C34_WindowFromLastAccepted ==
    /\ [](\A n \in DOMAIN last_event_time :
            /\ n \in DOMAIN hist.acceptedAt
            /\ last_event_time[n] <= hist.acceptedAt[n])
    /\ [][\A e \in events : DebounceDrops(e) =>
            /\ last_event_time' = last_event_time
            /\ e.name \in DOMAIN hist.acceptedAt
            /\ now - hist.acceptedAt[e.name] < DebounceDelay]_vars

\* C34 witness: an event was accepted at t0, one ignored at t1 < t0 + 1.5 s, and
\* one accepted at t2 >= t0 + 1.5 s with t2 < t1 + 1.5 s
C34_Witness ==
    \E n \in DOMAIN hist.droppedAt :
        /\ n \in DOMAIN hist.acceptedAt
        /\ hist.droppedAt[n] > 0
        /\ hist.acceptedAt[n] > hist.droppedAt[n]
        /\ hist.acceptedAt[n] - hist.droppedAt[n] < DebounceDelay
        /\ last_event_time[n] = hist.acceptedAt[n]

\* ------------------------------------------------------------------ quiescence
\* either script under a prefix of letters and under a prefix that holds a
\* character of the pattern language: the watcher thread and two workers over
\* files that arrive complete
InitQuiet ==
    /\ impl \in {"corrected", "original"}
    /\ platform = "posix"
    /\ fs = [f \in Ids |-> NoFile]
    /\ prefix \in {"Horizon", "Trip+"}
    /\ directory = "ok"
    /\ processing = FALSE
    /\ last_event_time = << >>
    /\ temp_files = {}
    /\ now = 0
    /\ events = {}
    /\ pc = [t \in Threads |-> "idle"]
    /\ path = [t \in Workers |-> <<>>]
    /\ renames = [t \in Threads |-> <<>>]
    /\ phase1_ok = [t \in Threads |-> <<>>]
    /\ idx = [t \in Threads |-> 1]
    /\ probe = [t \in Workers |-> ProbeStart]
    /\ cache_copy = [t \in Workers |-> << >>]
    /\ manual_passes = 0
    /\ existing_files = [t \in Threads |-> <<>>]
    /\ hist = HistInit

NextQuiet ==
    \/ ArriveComplete(FewFiles)
    \/ Deliver({FALSE}, {1, 2})
    \/ WorkerStep(1)
    \/ WorkerStep(2)

SpecQuiet == InitQuiet /\ [][NextQuiet]_vars

\* a name phase 2 gives: f"{self.prefix}_{i+1:02d}{ext}"
IsFinalName(name) ==
    \E i \in 1..MaxFiles, ext \in ImageExts : name = ExpectedName(prefix, i, <<".", ext>>)

\* C35 (as claimed): a moved event whose destination is a final name passes
\* the handlers, and the worker started for a final name ends before the
\* guard, so that no pass is started by the renames of a pass.
C35_OwnRenamesStartNoPass ==
    /\ [](\A e \in events : (e.kind = "moved" /\ IsFinalName(e.name)) => HandlerAccepts(e))
    /\ [][\A w \in Workers :
            (pc[w] \in {"start", "retry"} /\ IsFinalName(path[w])) => pc'[w] # "guard"]_vars

\* ------------------------------------------------------------------ cleanup against debounce
\* C36 (as claimed): for the whole debounce window after an event was
\* accepted, the time recorded for it is present in last_event_time, whatever
\* a cleanup does meanwhile.
C36_CleanupKeepsWindow ==
    \A n \in DOMAIN hist.acceptedAt :
        now - hist.acceptedAt[n] < DebounceDelay
        => (n \in DOMAIN last_event_time /\ last_event_time[n] = hist.acceptedAt[n])

\* ------------------------------------------------------------------ startup
\* directories found at startup: canonical names with a gap in the numbers,
\* and a name that is not canonical
StartupDirs ==
    DirsOf({CleanFile(n, c) : n \in {Horizon01Jpeg, Horizon03Png, Vacation}, c \in 1..MaxCtime})

\* either script on the main thread, before check_existing_files is called
InitStartup ==
    /\ impl \in {"corrected", "original"}
    /\ platform = "posix"
    /\ fs \in StartupDirs
    /\ prefix = "Horizon"
    /\ directory = "ok"
    /\ processing = FALSE
    /\ last_event_time = << >>
    /\ temp_files = {}
    /\ now = 0
    /\ events = {}
    /\ pc = [t \in Threads |-> IF t = Menu THEN "boot" ELSE "idle"]
    /\ path = [t \in Workers |-> <<>>]
    /\ renames = [t \in Threads |-> <<>>]
    /\ phase1_ok = [t \in Threads |-> <<>>]
    /\ idx = [t \in Threads |-> 1]
    /\ probe = [t \in Workers |-> ProbeStart]
    /\ cache_copy = [t \in Workers |-> << >>]
    /\ manual_passes = 0
    /\ existing_files = [t \in Threads |-> <<>>]
    /\ hist = HistInit

\* check_existing_files up to its call of reorganize_all_files: the corrected
\* script reorganizes whenever it finds an image file, the original script
\* only when one of the files is not already renamed
check_existing_files ==
    /\ pc[Menu] = "boot"
    /\ \E listing \in Listings(fs) :
        LET files == IF impl = "corrected" THEN get_real_image_files(fs, listing)
                     ELSE glob_image_files(platform, fs, listing)
            new_files == SelectSeq(files, LAMBDA n : ~is_already_renamed(prefix, n))
            runs == IF impl = "corrected" THEN files # <<>>
                    ELSE files # <<>> /\ new_files # <<>>
        IN  pc' = [pc EXCEPT ![Menu] = IF runs THEN "reorg" ELSE "idle"]
    /\ UNCHANGED <<impl, platform, directory, fs, prefix, processing, last_event_time,
                   temp_files, now, events, path, renames, phase1_ok, idx, probe,
                   cache_copy, manual_passes, existing_files, hist>>

NextStartup == check_existing_files \/ MenuPassStep

SpecStartup == InitStartup /\ [][NextStartup]_vars

\* C37 (as claimed): when check_existing_files has returned, no rename has
\* raised and every file carries a canonical name, the files carry the numbers
\* 1..N, each once.
C37_StartupClosesGaps ==
    (/\ pc[Menu] = "idle"
     /\ ~hist.failed[Menu]
     /\ \A f \in Present(fs) : IsCanonical(fs[f].name))
    => \A n \in 1..Cardinality(Present(fs)) :
         Cardinality({f \in Present(fs) : NumberOf(prefix, fs[f].name) = n}) = 1

\* ------------------------------------------------------------------ pending temporary names
\* some thread is inside reorganize_all_files
PassInFlight == \E t \in Threads : pc[t] \in {"reorg", "sort", "plan", "phase1", "phase2"}

\* C38 (as claimed): while no pass is in flight, every name in temp_files is
\* the name of a file of the directory.
C38_NoStalePendingNames ==
    ~PassInFlight => \A n \in temp_files : Exists(fs, n)

\* ------------------------------------------------------------------ the two scripts side by side
\* an extension in mixed case
PhotoMixed == <<"photo", ".", "Png">>

EquivNames == {Vacation, Img002, PhotoUpper, Horizon03Png, PhotoMixed}

\* directories of complete, readable, regular files with pairwise distinct
\* creation times
EquivDirs ==
    {d \in DirsOf({CleanFile(n, c) : n \in EquivNames, c \in 1..MaxCtime}) :
        \A f, g \in Present(d) : f # g => d[f].ctime # d[g].ctime}

\* manual passes of either script on POSIX; nothing else touches the directory
InitEquiv ==
    /\ impl \in {"corrected", "original"}
    /\ platform = "posix"
    /\ fs \in EquivDirs
    /\ InitEngine

SpecEquiv == InitEquiv /\ [][NextPass]_vars

\* the renames either script prepares for a directory and a listing order
PlanOf(which, dir, listing) ==
    BuildRenames(prefix, ResolvedFiles(which, platform, dir, listing), 1)

\* C39 (as claimed): on such a directory the plan a pass has just prepared is
\* the plan of either script under every listing order, the two scripts run
\* phase 2 over the same list, and a pass without a failing rename ends with
\* every image file under the final name of its rank by creation time.
C39_ScriptsAgree ==
    /\ (pc[Menu] = "phase1" /\ idx[Menu] = 1) =>
          \A l \in Listings(fs) :
              /\ PlanOf("original", fs, l) = renames[Menu]
              /\ PlanOf("corrected", fs, l) = renames[Menu]
    /\ (pc[Menu] = "phase2" /\ ~hist.failed[Menu]) => phase1_ok[Menu] = renames[Menu]
    /\ ManualPassSucceeded =>
          \A f \in Present(fs) :
              fs[f].name = ExpectedName(prefix, f, LowerSeq(Suffix(fs[f].name)))

====
